---- MODULE Spec2Model ----
(***************************************************************************)
(* Model of vscode-emmet-helper (emmetHelper.ts): the process-wide         *)
(* customization state and its reload (updateExtensionsPath), the filter   *)
(* suffix parser and abbreviation extractor, and the completion assembler  *)
(* (doComplete).                                                           *)
(*                                                                         *)
(* Strings are sequences of one-character strings.  A JavaScript object    *)
(* or Map is an ordered map: a sequence of <<key, value>> pairs with       *)
(* distinct keys, in insertion order (the order of Object.keys).           *)
(***************************************************************************)
EXTENDS Integers, Sequences, FiniteSets, TLC

(***************************************************************************)
(* Ordered maps                                                            *)
(***************************************************************************)
Range(s) == {s[i] : i \in 1..Len(s)}

\* Object.keys(m)
Keys(m) == [i \in 1..Len(m) |-> m[i][1]]

\* k in m
Has(m, k) == \E i \in 1..Len(m) : m[i][1] = k

\* m[k], for a key that is present
Get(m, k) == LET i == CHOOSE j \in 1..Len(m) : m[j][1] = k IN m[i][2]

\* m[k] = v (assignment keeps the position of an existing key)
Put(m, k, v) ==
    IF Has(m, k)
    THEN [i \in 1..Len(m) |-> IF m[i][1] = k THEN <<k, v>> ELSE m[i]]
    ELSE Append(m, <<k, v>>)

IsNew(a, e) == ~Has(a, e[1])

\* Object.assign({}, a, b)
Assign(a, b) ==
    [i \in 1..Len(a) |-> IF Has(b, a[i][1]) THEN <<a[i][1], Get(b, a[i][1])>> ELSE a[i]]
        \o SelectSeq(b, LAMBDA e : IsNew(a, e))

\* Object.assign([], prev, next) on arrays: index-wise overwrite
AssignArray(prev, next) ==
    [i \in 1..(IF Len(prev) > Len(next) THEN Len(prev) ELSE Len(next)) |->
        IF i <= Len(next) THEN next[i] ELSE prev[i]]

(***************************************************************************)
(* Syntaxes                                                                *)
(***************************************************************************)
StylesheetSyntaxes == {"css", "scss", "sass", "less", "stylus"}

MarkupSyntaxes == {"html", "xml", "xsl", "jsx", "haml", "pug", "slim"}

\* the syntaxes requests and customization files of the model speak about
Syntaxes == {"html", "css", "scss"}

isStyleSheet(syntax) == syntax \in StylesheetSyntaxes

getSyntaxType(syntax) == IF isStyleSheet(syntax) THEN "stylesheet" ELSE "markup"

getDefaultSyntax(syntax) == IF isStyleSheet(syntax) THEN "css" ELSE "html"

(***************************************************************************)
(* JavaScript values: every value carries its type; an object its ordered  *)
(* map, a string its characters, a number or boolean its number.           *)
(***************************************************************************)
JV(t, v, n) == [t |-> t, v |-> v, n |-> n]

JObj(m) == JV("object", m, 0)

JS(chars) == JV("string", chars, 0)

JN(n) == JV("number", <<>>, n)

JTrue == JV("boolean", <<>>, 1)

JFalse == JV("boolean", <<>>, 0)

JU == JV("undefined", <<>>, 0)

\* an optional value: absent, or present with value v
NotGiven == [given |-> FALSE, v |-> <<>>]

Given(v) == [given |-> TRUE, v |-> v]

\* a non-empty string where an object is expected
JStr == JS(<<"x">>)

IsObject(j) == j.t = "object"

\* j[k] is truthy, for a parsed value j (the values of the model's files are truthy)
Truthy(j, k) == IsObject(j) /\ Has(j.v, k)

(***************************************************************************)
(* Files of the extensions directories the model draws its inputs from     *)
(***************************************************************************)
K_ch == <<"c", "h">>
K_cw == <<"c", "w">>
K_cm == <<"c", "m">>
K_sm == <<"s", "m">>
K_hx == <<"h", "x">>
K_2c == <<"2", "c">>
V_h == <<"h", ":", "1">>
V_w == <<"w", ":", "1">>
V_m == <<"m", ":", "0">>
V_p == <<"p", ":", "0">>
V_tag == <<"<", "x", ">">>
V_c2 == <<"c", ":", "2">>
K_ct == <<"c", "t">>
K_cu == <<"c", "u">>
V_t == <<"t", ":", "1">>

Snippets(m) == JObj(<< <<"snippets", JObj(m)>> >>)

\* variables, css snippets, html snippets in the legacy `<tag>` form
SnippetsJsonA ==
    JObj(<< <<"variables", JObj(<< <<"lang", "fr">> >>)>>,
            <<"css", Snippets(<< <<K_ch, V_h>>, <<K_cw, V_w>> >>)>>,
            <<"html", Snippets(<< <<K_hx, V_tag>> >>)>> >>)

\* scss snippets inheriting the css ones; other variables
SnippetsJsonB ==
    JObj(<< <<"scss", Snippets(<< <<K_sm, V_m>> >>)>>,
            <<"css", Snippets(<< <<K_cm, V_p>>, <<K_2c, V_c2>> >>)>>,
            <<"variables", JObj(<< <<"charset", "latin1">> >>)>> >>)

\* two css snippets with one value
SnippetsJsonC ==
    JObj(<< <<"css", Snippets(<< <<K_ct, V_t>>, <<K_cu, V_t>> >>)>> >>)

\* a `variables` field that is not an object
SnippetsJsonBadVars ==
    JObj(<< <<"css", Snippets(<< <<K_cm, V_m>> >>)>>,
            <<"variables", JStr>> >>)

S_upper == <<"u", "p", "p", "e", "r">>
S_lower == <<"l", "o", "w", "e", "r">>
S_xhtml == <<"x", "h", "t", "m", "l">>
S_xml == <<"x", "m", "l">>
S_html == <<"h", "t", "m", "l">>

ProfilesJsonA == JObj(<< <<"html", JObj(<< <<"tag_case", JS(S_upper)>> >>)>>,
                         <<"css", JS(S_xhtml)>> >>)

\* what fs.readFile + tryParseFile give for a file
Absent == [file |-> "absent", json |-> JU]

Malformed == [file |-> "malformed", json |-> JU]

Parsed(j) == [file |-> "parsed", json |-> j]

DirIds == {"missing", "A", "B", "C", "bad"}

\* what fs.stat may give for a uri
Stat(d) == IF d = "missing" THEN {"unknown", "file", "throws"} ELSE {"directory"}

\* what snippets.json may hold below a directory
SnippetsFile(d) ==
    CASE d = "A" -> {Parsed(SnippetsJsonA)}
      [] d = "B" -> {Parsed(SnippetsJsonB)}
      [] d = "C" -> {Parsed(SnippetsJsonC)}
      [] d = "bad" -> {Malformed, Parsed(SnippetsJsonBadVars), Parsed(JStr),
                       Absent, Parsed(SnippetsJsonA)}
      [] OTHER -> {Absent}

\* what syntaxProfiles.json may hold below a directory
ProfilesFile(d) ==
    CASE d = "A" -> {Parsed(ProfilesJsonA)}
      [] d = "bad" -> {Malformed, Parsed(JStr)}
      [] OTHER -> {Absent}

(***************************************************************************)
(* The process-wide customization state and the functions that write it    *)
(***************************************************************************)
VARIABLES
    customSnippetsRegistry,            \* syntax -> snippets map
    variablesFromFile,                 \* name -> value
    profilesFromFile,                  \* syntax -> profile
    snippetKeyCache,                   \* syntax -> keys (markup)
    stylesheetCustomSnippetsKeyCache,  \* syntax -> keys (stylesheet)
    markupSnippetKeys                  \* keys fetched by the last markup completion

custVars == <<customSnippetsRegistry, variablesFromFile, profilesFromFile,
              snippetKeyCache, stylesheetCustomSnippetsKeyCache>>

\* the customization state as one value
Cust(reg, vars, profs, keyCache, cssKeyCache) ==
    [reg |-> reg, vars |-> vars, profs |-> profs,
     keyCache |-> keyCache, cssKeyCache |-> cssKeyCache]

CurrentCust == Cust(customSnippetsRegistry, variablesFromFile, profilesFromFile,
                    snippetKeyCache, stylesheetCustomSnippetsKeyCache)

Install(c) ==
    /\ customSnippetsRegistry' = c.reg
    /\ variablesFromFile' = c.vars
    /\ profilesFromFile' = c.profs
    /\ snippetKeyCache' = c.keyCache
    /\ stylesheetCustomSnippetsKeyCache' = c.cssKeyCache

EmptyCust == Cust(<<>>, <<>>, <<>>, <<>>, <<>>)

resetSettingsFromFile_keepsProfiles(c) == Cust(<<>>, <<>>, c.profs, <<>>, <<>>)

resetSettingsFromFile(c) == EmptyCust

\* outcome of a function that may throw
Ok(c) == [threw |-> FALSE, cust |-> c]

Threw(c) == [threw |-> TRUE, cust |-> c]

updateVariables(c, varsJson) ==
    IF IsObject(varsJson)
    THEN Ok([c EXCEPT !.vars = Assign(c.vars, varsJson.v)])
    ELSE Threw(c)

updateProfiles(c, profileJson) ==
    IF IsObject(profileJson)
    THEN Ok([c EXCEPT !.profs = Assign(c.profs, profileJson.v)])
    ELSE Threw(c)

StartsWith(s, p) == Len(s) >= Len(p) /\ SubSeq(s, 1, Len(p)) = p

EndsWith(s, p) == Len(s) >= Len(p) /\ SubSeq(s, Len(s) - Len(p) + 1, Len(s)) = p

\* old snippets `<...>` become `{<...>}`
ConvertOldSnippets(m) ==
    [i \in 1..Len(m) |->
        IF StartsWith(m[i][2], <<"<">>) /\ EndsWith(m[i][2], <<">">>)
        THEN <<m[i][1], <<"{">> \o m[i][2] \o <<"}">>>>
        ELSE m[i]]

\* configCompat.parseSnippets: the files of the model have plain keys, which it keeps
parseSnippets(m) == m

\* the body of updateSnippets' forEach, for one key of the file
updateSnippetsFor(c, snippetsJson, syntax) ==
    LET entry == Get(snippetsJson.v, syntax)
        baseSyntax == getDefaultSyntax(syntax)
        own == Get(entry.v, "snippets").v
        inherits == /\ Has(snippetsJson.v, baseSyntax)
                    /\ Truthy(Get(snippetsJson.v, baseSyntax), "snippets")
                    /\ baseSyntax # syntax
        merged == IF inherits
                  THEN Assign(Get(Get(snippetsJson.v, baseSyntax).v, "snippets").v, own)
                  ELSE own
        customSnippets == IF isStyleSheet(syntax) THEN merged ELSE ConvertOldSnippets(merged)
        prevSnippetKeys == IF Has(c.cssKeyCache, syntax) THEN Get(c.cssKeyCache, syntax) ELSE <<>>
        mergedSnippetKeys == AssignArray(prevSnippetKeys, Keys(customSnippets))
        prevSnippetsRegistry == IF Has(c.reg, syntax) THEN Get(c.reg, syntax) ELSE <<>>
        mergedSnippets == Assign(prevSnippetsRegistry, parseSnippets(customSnippets))
    IN  IF ~Truthy(entry, "snippets")
        THEN c
        ELSE [c EXCEPT
                !.cssKeyCache = IF isStyleSheet(syntax)
                                THEN Put(c.cssKeyCache, syntax, mergedSnippetKeys)
                                ELSE @,
                !.reg = Put(c.reg, syntax, mergedSnippets)]

RECURSIVE updateSnippetsFrom(_, _, _)
updateSnippetsFrom(c, snippetsJson, i) ==
    IF i > Len(snippetsJson.v)
    THEN c
    ELSE updateSnippetsFrom(updateSnippetsFor(c, snippetsJson, snippetsJson.v[i][1]),
                            snippetsJson, i + 1)

updateSnippets(c, snippetsJson) ==
    IF IsObject(snippetsJson)
    THEN Ok(updateSnippetsFrom(c, snippetsJson, 1))
    ELSE Threw(c)

(***************************************************************************)
(* updateExtensionsPath: an async function.  Each call is a process that   *)
(* runs from one await to the next in one step; between two steps any      *)
(* other call or request may run.                                          *)
(***************************************************************************)
VARIABLES
    reload,     \* per call slot: where the call is suspended, its uris, its outcome
    request     \* the request served by the last step, if that step was a request

vars == <<customSnippetsRegistry, variablesFromFile, profilesFromFile,
          snippetKeyCache, stylesheetCustomSnippetsKeyCache, markupSnippetKeys,
          reload, request>>

Procs == {1, 2}

MaxPaths == 2

\* an entry of the emmet.extensionsPath setting, and the directory it denotes
\* once resolved against the home directory or the workspace folder
Path(kind, dir) == [kind |-> kind, dir |-> dir]

Paths == {Path("home", "A"), Path("relative", "B"),
          Path("absolute", "missing"), Path("absolute", "bad")}

Settings == UNION {[1..n -> Paths] : n \in 0..MaxPaths}

\* homeDir and workspaceFolderPaths are optional arguments: both given or neither
Envs == {[homeDir |-> given, workspaceFolderPaths |-> given] : given \in BOOLEAN}

NoRequest == [kind |-> "none"]

\* snippets, variables and profiles of a customization state or of a request's view
Parts(reg, variables, profs) == <<reg, variables, profs>>

Idle == [pc |-> "idle", configured |-> FALSE, uris |-> <<>>, i |-> 0,
         before |-> Parts(<<>>, <<>>, <<>>)]

InFlight(p) == reload[p].pc \in {"stat", "readSnippets", "readProfiles"}

Settled(p) == reload[p].pc \in {"idle", "resolved", "rejected"}

\* the uris pushed for the setting: `~` paths need homeDir, relative ones a workspace folder
Resolves(path, env) ==
    CASE path.kind = "home" -> env.homeDir
      [] path.kind = "relative" -> env.workspaceFolderPaths
      [] path.kind = "absolute" -> TRUE

ExtensionsPathUris(setting, env) ==
    LET pushed(path) == Resolves(path, env)
        kept == SelectSeq(setting, pushed)
    IN  [i \in 1..Len(kept) |-> kept[i].dir]

\* the loop `for (const uri of emmetExtensionsPathUri)` moves to uri i, or the call returns
NextUri(r, i) ==
    IF i <= Len(r.uris)
    THEN [r EXCEPT !.pc = "stat", !.i = i]
    ELSE [r EXCEPT !.pc = "resolved"]

Call_keepsPrevious(p, setting, env) ==
    /\ Settled(p)
    /\ LET uris == IF Len(setting) = 0 THEN <<>> ELSE ExtensionsPathUris(setting, env)
           r == [pc |-> "stat", configured |-> Len(setting) > 0, uris |-> uris, i |-> 1,
                 before |-> Parts(customSnippetsRegistry, variablesFromFile, profilesFromFile)]
       IN reload' = [reload EXCEPT ![p] = NextUri(r, 1)]
    /\ request' = NoRequest
    /\ UNCHANGED <<custVars, markupSnippetKeys>>

\* synchronous part of the call, up to `await fs.stat` of the first uri
Call(p, setting, env) ==
    /\ Settled(p)
    /\ Install(resetSettingsFromFile(CurrentCust))
    /\ LET uris == IF Len(setting) = 0 THEN <<>> ELSE ExtensionsPathUris(setting, env)
           r == [pc |-> "stat", configured |-> Len(setting) > 0, uris |-> uris, i |-> 1,
                 before |-> Parts(customSnippetsRegistry, variablesFromFile, profilesFromFile)]
       IN reload' = [reload EXCEPT ![p] = NextUri(r, 1)]
    /\ request' = NoRequest
    /\ UNCHANGED markupSnippetKeys

\* fs.stat settles: a uri that is no directory, or whose stat throws, is skipped
StatDone(p) ==
    /\ reload[p].pc = "stat"
    /\ LET r == reload[p]
       IN \E stat \in Stat(r.uris[r.i]) :
            reload' = [reload EXCEPT ![p] =
                        IF stat = "directory"
                        THEN [r EXCEPT !.pc = "readSnippets"]
                        ELSE NextUri(r, r.i + 1)]
    /\ request' = NoRequest
    /\ UNCHANGED <<custVars, markupSnippetKeys>>

\* the try block around snippets.json: variables, then snippets
LoadSnippetsFile(c, f) ==
    IF f.file = "malformed"
    THEN Threw(c)
    ELSE LET snippetsJson == f.json
             v == IF Truthy(snippetsJson, "variables")
                  THEN updateVariables(c, Get(snippetsJson.v, "variables"))
                  ELSE Ok(c)
         IN IF v.threw THEN v ELSE updateSnippets(v.cust, snippetsJson)

\* the try block around syntaxProfiles.json
LoadProfilesFile(c, f) ==
    IF f.file = "malformed"
    THEN Threw(c)
    ELSE updateProfiles(c, f.json)

\* fs.readFile(snippetsPath) settles
ReadSnippetsDone(p) ==
    /\ reload[p].pc = "readSnippets"
    /\ \E f \in SnippetsFile(reload[p].uris[reload[p].i]) :
       LET r == reload[p]
           res == IF f.file = "absent" THEN Ok(CurrentCust) ELSE LoadSnippetsFile(CurrentCust, f)
       IN IF res.threw
          THEN /\ Install(resetSettingsFromFile(res.cust))
               /\ reload' = [reload EXCEPT ![p].pc = "rejected"]
          ELSE /\ Install(res.cust)
               /\ reload' = [reload EXCEPT ![p].pc = "readProfiles"]
    /\ request' = NoRequest
    /\ UNCHANGED markupSnippetKeys

\* fs.readFile(profilesPath) settles
ReadProfilesDone(p) ==
    /\ reload[p].pc = "readProfiles"
    /\ \E f \in ProfilesFile(reload[p].uris[reload[p].i]) :
       LET r == reload[p]
           res == IF f.file = "absent" THEN Ok(CurrentCust) ELSE LoadProfilesFile(CurrentCust, f)
       IN IF res.threw
          THEN /\ Install(resetSettingsFromFile(res.cust))
               /\ reload' = [reload EXCEPT ![p].pc = "rejected"]
          ELSE /\ Install(res.cust)
               /\ reload' = [reload EXCEPT ![p] = NextUri(r, r.i + 1)]
    /\ request' = NoRequest
    /\ UNCHANGED markupSnippetKeys

(***************************************************************************)
(* String helpers (String.prototype)                                       *)
(***************************************************************************)
\* s.indexOf(ch), 1-based; 0 when absent
IndexOf(s, ch) ==
    IF \E i \in 1..Len(s) : s[i] = ch
    THEN CHOOSE i \in 1..Len(s) : s[i] = ch /\ \A j \in 1..(i - 1) : s[j] # ch
    ELSE 0

Includes(s, ch) == \E i \in 1..Len(s) : s[i] = ch

IsSpace(ch) == ch \in {" ", "\t", "\n"}

RECURSIVE TrimStart(_)
TrimStart(s) == IF Len(s) > 0 /\ IsSpace(s[1]) THEN TrimStart(Tail(s)) ELSE s

RECURSIVE TrimEnd(_)
TrimEnd(s) ==
    IF Len(s) > 0 /\ IsSpace(s[Len(s)]) THEN TrimEnd(SubSeq(s, 1, Len(s) - 1)) ELSE s

Trim(s) == TrimEnd(TrimStart(s))

\* s.split(sep) for a one-character separator
RECURSIVE Split(_, _)
Split(s, sep) ==
    LET i == IndexOf(s, sep)
    IN  IF i = 0
        THEN <<s>>
        ELSE <<SubSeq(s, 1, i - 1)>> \o Split(SubSeq(s, i + 1, Len(s)), sep)

\* arr.map(x => x.trim())
TrimAll(arr) == [i \in 1..Len(arr) |-> Trim(arr[i])]

(***************************************************************************)
(* getProfile, getVariables, getFormatters, getExpandOptions               *)
(***************************************************************************)
\* o[k] of an ordered map: undefined when absent
Prop(m, k) == IF Has(m, k) THEN Get(m, k) ELSE JU

\* a ?? b
Coalesce(a, b) == IF a.t = "undefined" THEN b ELSE a

IsLowerOrUpper(j) == j.t = "string" /\ j.v \in {S_lower, S_upper}

\* one case of getProfile's switch
ProfileOption(newOptions, key, value) ==
    CASE key = "tag_case" ->
            Put(newOptions, "tagCase", IF IsLowerOrUpper(value) THEN value ELSE JS(<<>>))
      [] key = "attr_case" ->
            Put(newOptions, "attributeCase", IF IsLowerOrUpper(value) THEN value ELSE JS(<<>>))
      [] key = "attr_quotes" -> Put(newOptions, "attributeQuotes", value)
      [] key = "tag_nl" ->
            Put(newOptions, "format", IF value.t = "boolean" THEN value ELSE JTrue)
      [] key = "inline_break" -> Put(newOptions, "inlineBreak", value)
      [] key = "self_closing_tag" ->
            Put(newOptions, "selfClosingStyle",
                IF value.t = "boolean" /\ value.n = 1 THEN JS(S_xml)
                ELSE IF value.t = "boolean" /\ value.n = 0 THEN JS(S_html)
                ELSE value)
      [] key = "compact_bool" -> Put(newOptions, "compactBooleanAttributes", value)
      [] OTHER -> Put(newOptions, key, value)

RECURSIVE ProfileOptionsFrom(_, _, _)
ProfileOptionsFrom(newOptions, options, i) ==
    IF i > Len(options)
    THEN newOptions
    ELSE ProfileOptionsFrom(ProfileOption(newOptions, options[i][1], options[i][2]),
                            options, i + 1)

\* profilesFromSettings: syntax -> profile (an ordered map)
getProfile(syntax, profilesFromSettings) ==
    LET profilesConfig == Assign(profilesFromFile, profilesFromSettings)
        options == Prop(profilesConfig, syntax)
    IN  IF options.t # "object"
        THEN IF options.t = "string" /\ options.v = S_xhtml
             THEN << <<"selfClosingStyle", JS(S_xhtml)>> >>
             ELSE <<>>
        ELSE ProfileOptionsFrom(<<>>, options.v, 1)

\* variablesFromSettings: [given: BOOLEAN, v: ordered map]
getVariables(variablesFromSettings) ==
    IF ~variablesFromSettings.given
    THEN variablesFromFile
    ELSE Assign(variablesFromFile, variablesFromSettings.v)

\* one alias of the `css.unitAliases` preference, e.g. `e:em`
UnitAlias(unitAliases, alias) ==
    LET aliasName == SubSeq(alias, 1, IndexOf(alias, ":") - 1)
        aliasValue == SubSeq(alias, Len(aliasName) + 2, Len(alias))
    IN  IF Len(alias) = 0 \/ Len(Trim(alias)) = 0 \/ ~Includes(alias, ":")
        THEN unitAliases
        ELSE IF Len(Trim(aliasName)) = 0 \/ Len(aliasValue) = 0
        THEN unitAliases
        ELSE Put(unitAliases, Trim(aliasName), aliasValue)

RECURSIVE UnitAliasesFrom(_, _, _)
UnitAliasesFrom(unitAliases, aliases, i) ==
    IF i > Len(aliases)
    THEN unitAliases
    ELSE UnitAliasesFrom(UnitAlias(unitAliases, aliases[i]), aliases, i + 1)

\* the preference keys that carry the syntax in their name
ValueSeparatorKey(syntax) ==
    CASE syntax = "css" -> "css.valueSeparator"
      [] syntax = "scss" -> "scss.valueSeparator"
      [] syntax = "sass" -> "sass.valueSeparator"
      [] syntax = "less" -> "less.valueSeparator"
      [] syntax = "stylus" -> "stylus.valueSeparator"
      [] OTHER -> "css.valueSeparator"

PropertyEndKey(syntax) ==
    CASE syntax = "css" -> "css.propertyEnd"
      [] syntax = "scss" -> "scss.propertyEnd"
      [] syntax = "sass" -> "sass.propertyEnd"
      [] syntax = "less" -> "less.propertyEnd"
      [] syntax = "stylus" -> "stylus.propertyEnd"
      [] OTHER -> "css.propertyEnd"

\* numbers that are fractions are kept in hundredths: 0.3 is 30, 1 is 100
DefaultFuzzySearchMinScore == 30

\* one case of the switch in getFormatters's stylesheet loop
StylesheetFormatterOption(f, syntax, key, value) ==
    CASE key = "css.floatUnit" -> Put(f, "floatUnit", value)
      [] key = "css.intUnit" -> Put(f, "intUnit", value)
      [] key = "css.unitAliases" ->
            Put(f, "unitAliases", JObj(UnitAliasesFrom(<<>>, Split(value.v, ","), 1)))
      [] key = ValueSeparatorKey(syntax) /\ isStyleSheet(syntax) -> Put(f, "between", value)
      [] key = PropertyEndKey(syntax) /\ isStyleSheet(syntax) -> Put(f, "after", value)
      [] OTHER -> f

RECURSIVE StylesheetFormatterFrom(_, _, _, _)
StylesheetFormatterFrom(f, syntax, preferences, i) ==
    IF i > Len(preferences)
    THEN f
    ELSE StylesheetFormatterFrom(
            StylesheetFormatterOption(f, syntax, preferences[i][1], preferences[i][2]),
            syntax, preferences, i + 1)

CommentFormatterOption(f, key, value) ==
    CASE key = "filter.commentAfter" -> Put(f, "after", value)
      [] key = "filter.commentBefore" -> Put(f, "before", value)
      [] key = "filter.commentTrigger" -> Put(f, "trigger", value)
      [] OTHER -> f

RECURSIVE CommentFormatterFrom(_, _, _)
CommentFormatterFrom(f, preferences, i) ==
    IF i > Len(preferences)
    THEN f
    ELSE CommentFormatterFrom(CommentFormatterOption(f, preferences[i][1], preferences[i][2]),
                              preferences, i + 1)

\* preferences: an ordered map; the result has either `comment` or `stylesheet`
getFormatters(syntax, preferences) ==
    IF ~isStyleSheet(syntax)
    THEN << <<"comment", JObj(CommentFormatterFrom(<<>>, preferences, 1))>> >>
    ELSE LET given == Prop(preferences, "css.fuzzySearchMinScore")
             score == IF given.t = "number" THEN given.n ELSE DefaultFuzzySearchMinScore
             fuzzySearchMinScore == IF score > 100 THEN 100 ELSE IF score < 0 THEN 0 ELSE score
             stylesheetFormatter == << <<"fuzzySearchMinScore", JN(fuzzySearchMinScore)>> >>
         IN << <<"stylesheet",
                 JObj(StylesheetFormatterFrom(stylesheetFormatter, syntax, preferences, 1))>> >>

getClosingStyle(syntax) ==
    CASE syntax = "xhtml" -> S_xhtml
      [] syntax = "xml" -> S_xml
      [] syntax = "xsl" -> S_xml
      [] syntax = "jsx" -> S_xhtml
      [] OTHER -> S_html

JArr(items) == JV("array", items, 0)

\* the tab-stop field formatter callback
emmetSnippetFieldFn == JV("function", <<"emmetSnippetField">>, 0)

Bool(b) == IF b THEN JTrue ELSE JFalse

S_px == <<"p", "x">>
S_em == <<"e", "m">>

DefaultUnitAliases ==
    << <<<<"e">>, S_em>>, <<<<"p">>, <<"%">>>>, <<<<"x">>, <<"e", "x">>>>,
       <<<<"r">>, <<"r", "e", "m">>>> >>

S_commentAfter == <<"\n", "<", "!", "-", "-", " ", "/", "[", "#", "I", "D", "]",
                    "[", ".", "C", "L", "A", "S", "S", "]", " ", "-", "-", ">">>

defaultVSCodeOptions(syntax) ==
    << <<"output.formatSkip", JArr(<<S_html>>)>>,
       <<"output.formatForce", JArr(<<<<"b", "o", "d", "y">>>>)>>,
       <<"output.inlineBreak", JN(0)>>,
       <<"output.compactBoolean", JFalse>>,
       <<"output.reverseAttributes", JFalse>>,
       <<"output.field", emmetSnippetFieldFn>>,
       <<"markup.href", JTrue>>,
       <<"comment.enabled", JFalse>>,
       <<"comment.trigger", JArr(<<<<"i", "d">>, <<"c", "l", "a", "s", "s">>>>)>>,
       <<"comment.before", JS(<<>>)>>,
       <<"comment.after", JS(S_commentAfter)>>,
       <<"bem.enabled", JFalse>>,
       <<"bem.element", JS(<<"_", "_">>)>>,
       <<"bem.modifier", JS(<<"_">>)>>,
       <<"jsx.enabled", Bool(syntax = "jsx")>>,
       <<"stylesheet.shortHex", JTrue>>,
       <<"stylesheet.between", JS(IF syntax = "stylus" THEN <<" ">> ELSE <<":", " ">>)>>,
       <<"stylesheet.after", JS(IF syntax \in {"sass", "stylus"} THEN <<>> ELSE <<";">>)>>,
       <<"stylesheet.intUnit", JS(S_px)>>,
       <<"stylesheet.floatUnit", JS(S_em)>>,
       <<"stylesheet.unitAliases", JObj(DefaultUnitAliases)>>,
       <<"stylesheet.fuzzySearchMinScore", JN(DefaultFuzzySearchMinScore)>> >>

userPreferenceOptions(syntax, profile, preferences, unitAliases, bemEnabled, commentEnabled) ==
    LET stylesheetSyntax == IF isStyleSheet(syntax) THEN syntax ELSE "css"
    IN
    << <<"output.tagCase", Prop(profile, "tagCase")>>,
       <<"output.attributeCase", Prop(profile, "attributeCase")>>,
       <<"output.attributeQuotes", Prop(profile, "attributeQuotes")>>,
       <<"output.format", Coalesce(Prop(profile, "format"), JTrue)>>,
       <<"output.formatSkip", Prop(preferences, "format.noIndentTags")>>,
       <<"output.formatForce", Prop(preferences, "format.forceIndentationForTags")>>,
       <<"output.inlineBreak",
            Coalesce(Prop(profile, "inlineBreak"), Prop(preferences, "output.inlineBreak"))>>,
       <<"output.compactBoolean",
            Coalesce(Prop(profile, "compactBooleanAttributes"),
                     Prop(preferences, "profile.allowCompactBoolean"))>>,
       <<"output.reverseAttributes", Prop(preferences, "output.reverseAttributes")>>,
       <<"output.selfClosingStyle",
            Coalesce(Coalesce(Prop(profile, "selfClosingStyle"),
                              Prop(preferences, "output.selfClosingStyle")),
                     JS(getClosingStyle(syntax)))>>,
       <<"output.field", emmetSnippetFieldFn>>,
       <<"comment.enabled", Bool(commentEnabled)>>,
       <<"comment.trigger", Prop(preferences, "filter.commentTrigger")>>,
       <<"comment.before", Prop(preferences, "filter.commentBefore")>>,
       <<"comment.after", Prop(preferences, "filter.commentAfter")>>,
       <<"bem.enabled", Bool(bemEnabled)>>,
       <<"bem.element", Coalesce(Prop(preferences, "bem.elementSeparator"), JS(<<"_", "_">>))>>,
       <<"bem.modifier", Coalesce(Prop(preferences, "bem.modifierSeparator"), JS(<<"_">>))>>,
       <<"jsx.enabled", Bool(syntax = "jsx")>>,
       <<"stylesheet.shortHex", Prop(preferences, "css.color.short")>>,
       <<"stylesheet.between", Prop(preferences, ValueSeparatorKey(stylesheetSyntax))>>,
       <<"stylesheet.after", Prop(preferences, PropertyEndKey(stylesheetSyntax))>>,
       <<"stylesheet.intUnit", Prop(preferences, "css.intUnit")>>,
       <<"stylesheet.floatUnit", Prop(preferences, "css.floatUnit")>>,
       <<"stylesheet.unitAliases", JObj(unitAliases)>>,
       <<"stylesheet.fuzzySearchMinScore", Prop(preferences, "css.fuzzySearchMinScore")>> >>

\* the merge with the operands of ?? exchanged: the default wins over the user's value
Combine_defaultsWin(user, defaults) ==
    LET isNewKey(k) == ~Has(defaults, k)
        keys == Keys(defaults) \o SelectSeq(Keys(user), isNewKey)
    IN  [i \in 1..Len(keys) |->
            <<keys[i], Coalesce(Prop(defaults, keys[i]), Prop(user, keys[i]))>>]

\* combinedOptions[key] = userPreferenceOptions[key] ?? defaultVSCodeOptions[key], for the
\* keys of the defaults and then those of the user options (a key keeps its first position)
Combine(user, defaults) ==
    LET isNewKey(k) == ~Has(defaults, k)
        keys == Keys(defaults) \o SelectSeq(Keys(user), isNewKey)
    IN  [i \in 1..Len(keys) |->
            <<keys[i], Coalesce(Prop(user, keys[i]), Prop(defaults, keys[i]))>>]

\* filter.split(',').some(x => x.trim() === name); filter: [given: BOOLEAN, v: string]
FilterHas(filter, name) ==
    /\ filter.given
    /\ Len(filter.v) > 0
    /\ \E x \in Range(Split(filter.v, ",")) : Trim(x) = name

S_bem == <<"b", "e", "m">>
S_c == <<"c">>
S_t == <<"t">>

\* emmetConfig: the VSCodeEmmetConfig record; filter: [given, v]
getExpandOptions(syntax, emmetConfig, filter) ==
    LET preferences == emmetConfig.preferences
        profile == getProfile(syntax, emmetConfig.syntaxProfiles)
        filtersFromProfile == IF Has(profile, "filters") /\ Len(Get(profile, "filters").v) > 0
                              THEN Split(Get(profile, "filters").v, ",")
                              ELSE <<>>
        trimmedFilters == TrimAll(filtersFromProfile)
        bemEnabled == FilterHas(filter, S_bem) \/ S_bem \in Range(trimmedFilters)
        commentEnabled == FilterHas(filter, S_c) \/ S_c \in Range(trimmedFilters)
        formatters == getFormatters(syntax, preferences)
        sheet == Prop(formatters, "stylesheet")
        unitAliases == IF sheet.t = "object" /\ Has(sheet.v, "unitAliases")
                       THEN Get(sheet.v, "unitAliases").v
                       ELSE <<>>
        defaults == defaultVSCodeOptions(syntax)
        user == userPreferenceOptions(syntax, profile, preferences, unitAliases,
                                      bemEnabled, commentEnabled)
        combinedOptions == Combine(user, defaults)
        mergedAliases == Assign(DefaultUnitAliases, unitAliases)
        type == getSyntaxType(syntax)
        baseSyntax == getDefaultSyntax(syntax)
        registry(s) == IF Has(customSnippetsRegistry, s)
                       THEN JObj(Get(customSnippetsRegistry, s))
                       ELSE JU
        snippets == IF type = "stylesheet"
                    THEN Coalesce(registry(syntax), registry(baseSyntax))
                    ELSE registry(syntax)
    IN  [type |-> type,
         options |-> Put(combinedOptions, "stylesheet.unitAliases", JObj(mergedAliases)),
         variables |-> getVariables(emmetConfig.variables),
         snippets |-> snippets,
         syntax |-> syntax,
         maxRepeat |-> 1000]

(***************************************************************************)
(* Documents, getCurrentLine, getFilters and extractAbbreviation           *)
(***************************************************************************)
Min(a, b) == IF a < b THEN a ELSE b

Max(a, b) == IF a > b THEN a ELSE b

\* s.substring(from, to) with 0-based offsets
Substring(s, from, to) == SubSeq(s, Min(from, Len(s)) + 1, Min(to, Len(s)))

\* s.substr(from)
SubstrFrom(s, from) == Substring(s, from, Len(s))

\* text.endsWith(suffix, endPosition)
EndsWithAt(text, suffix, endPosition) ==
    LET e == Min(endPosition, Len(text))
    IN  e >= Len(suffix) /\ SubSeq(text, e - Len(suffix) + 1, e) = suffix

\* TextDocument.offsetAt of vscode-languageserver-textdocument
offsetAt(text, position) ==
    LET breaks == {i \in 1..Len(text) : text[i] = "\n"}
        lineStart(l) == IF l = 0 THEN 0
                        ELSE CHOOSE i \in breaks : Cardinality({j \in breaks : j < i}) = l - 1
        lines == Cardinality(breaks) + 1
    IN  IF position.line >= lines
        THEN Len(text)
        ELSE LET lo == lineStart(position.line)
                 hi == IF position.line + 1 < lines
                       THEN lineStart(position.line + 1)
                       ELSE Len(text)
             IN Max(Min(lo + position.character, hi), lo)

getCurrentLine(document, position) ==
    LET text == document.text
        offset == offsetAt(text, position)
        before == {i \in 0..(offset - 1) : text[i + 1] = "\n"}
        after == {i \in offset..(Len(text) - 1) : text[i + 1] = "\n"}
        start == IF before = {} THEN 0 ELSE (CHOOSE i \in before : \A j \in before : j <= i) + 1
        end == IF after = {} THEN Len(text) ELSE CHOOSE i \in after : \A j \in after : i <= j
    IN  Substring(text, start, end)

bemFilterSuffix == S_bem

filterDelimitor == <<"|">>

trimFilterSuffix == S_t

commentFilterSuffix == S_c

maxFilters == 3

\* filter ? suffix + ',' + filter : suffix
PrependFilter_appends(filter, suffix) ==
    IF filter.given THEN Given(filter.v \o <<",">> \o suffix) ELSE Given(suffix)

PrependFilter(filter, suffix) ==
    IF filter.given THEN Given(suffix \o <<",">> \o filter.v) ELSE Given(suffix)

\* one round of getFilters' loop; `stop` is its break
FilterStep(text, st) ==
    LET found(suffix) == EndsWithAt(text, filterDelimitor \o suffix, st.pos)
        take(suffix) == [pos |-> st.pos - (Len(suffix) + 1),
                         filter |-> PrependFilter(st.filter, suffix),
                         stop |-> FALSE]
    IN  IF st.stop THEN st
        ELSE IF found(bemFilterSuffix) THEN take(bemFilterSuffix)
        ELSE IF found(commentFilterSuffix) THEN take(commentFilterSuffix)
        ELSE IF found(trimFilterSuffix) THEN take(trimFilterSuffix)
        ELSE [st EXCEPT !.stop = TRUE]

RECURSIVE FilterSteps(_, _, _)
FilterSteps(text, st, i) ==
    IF i >= maxFilters THEN st ELSE FilterSteps(text, FilterStep(text, st), i + 1)

getFilters(text, pos) ==
    LET st == FilterSteps(text, [pos |-> pos, filter |-> NotGiven, stop |-> FALSE], 0)
    IN  [pos |-> st.pos, filter |-> st.filter]

\* characters the stand-in for emmet's extract stops at
ExtractStops == {" ", "\t", "\n", "<", ";"}

\* outcomes of the external extract(line, pos, options): it throws, finds
\* nothing, or finds the abbreviation that ends at pos
ExtractOutcomes == {"throws", "none", "found"}

extract(line, pos, outcome) ==
    LET e == Max(Min(pos, Len(line)), 0)
        stops == {i \in 1..e : line[i] \in ExtractStops}
        location == IF stops = {} THEN 0 ELSE CHOOSE i \in stops : \A j \in stops : j <= i
    IN  IF outcome = "throws"
        THEN [threw |-> TRUE, found |-> FALSE, abbreviation |-> <<>>, location |-> 0]
        ELSE IF outcome = "none" \/ location = e
        THEN [threw |-> FALSE, found |-> FALSE, abbreviation |-> <<>>, location |-> 0]
        ELSE [threw |-> FALSE, found |-> TRUE,
              abbreviation |-> Substring(line, location, e), location |-> location]

NoRange == [line |-> 0, start |-> 0, end |-> 0]

extractAbbreviation_filterLength(document, position, outcome) ==
    LET currentLine == getCurrentLine(document, position)
        currentLineTillPosition == Substring(currentLine, 0, position.character)
        f == getFilters(currentLineTillPosition, position.character)
        lengthOccupiedByFilter == IF f.filter.given THEN Len(f.filter.v) ELSE 0
        result == extract(currentLine, f.pos, outcome)
    IN  [threw |-> result.threw,
         found |-> result.found,
         abbreviation |-> result.abbreviation,
         abbreviationRange |->
            IF result.found
            THEN [line |-> position.line, start |-> result.location,
                  end |-> result.location + Len(result.abbreviation) + lengthOccupiedByFilter]
            ELSE NoRange,
         filter |-> IF result.found THEN f.filter ELSE NotGiven]

extractAbbreviation(document, position, outcome) ==
    LET currentLine == getCurrentLine(document, position)
        currentLineTillPosition == Substring(currentLine, 0, position.character)
        f == getFilters(currentLineTillPosition, position.character)
        lengthOccupiedByFilter == IF f.filter.given THEN Len(f.filter.v) + 1 ELSE 0
        result == extract(currentLine, f.pos, outcome)
    IN  [threw |-> result.threw,
         found |-> result.found,
         abbreviation |-> result.abbreviation,
         abbreviationRange |->
            IF result.found
            THEN [line |-> position.line, start |-> result.location,
                  end |-> result.location + Len(result.abbreviation) + lengthOccupiedByFilter]
            ELSE NoRange,
         filter |-> IF result.found THEN f.filter ELSE NotGiven]

(***************************************************************************)
(* Characters and the regular expressions of the completion provider       *)
(***************************************************************************)
LowerLetters == <<"a", "b", "c", "d", "e", "f", "g", "h", "i", "j", "k", "l", "m",
                  "n", "o", "p", "q", "r", "s", "t", "u", "v", "w", "x", "y", "z">>

UpperLetters == <<"A", "B", "C", "D", "E", "F", "G", "H", "I", "J", "K", "L", "M",
                  "N", "O", "P", "Q", "R", "S", "T", "U", "V", "W", "X", "Y", "Z">>

IsUpper(ch) == ch \in Range(UpperLetters)

IsLetter(ch) == ch \in Range(LowerLetters) \/ IsUpper(ch)

\* \d
IsDigit(ch) == ch \in {"0", "1", "2", "3", "4", "5", "6", "7", "8", "9"}

\* \w
IsWordChar(ch) == IsLetter(ch) \/ IsDigit(ch) \/ ch = "_"

\* [a-f,A-F]
IsHexLetter(ch) == ch \in {"a", "b", "c", "d", "e", "f", "A", "B", "C", "D", "E", "F"}

LowerChar(ch) ==
    IF IsUpper(ch)
    THEN LowerLetters[CHOOSE i \in 1..Len(UpperLetters) : UpperLetters[i] = ch]
    ELSE ch

toLowerCase(s) == [i \in 1..Len(s) |-> LowerChar(s[i])]

\* Number(digits)
DigitValue(ch) ==
    CASE ch = "0" -> 0 [] ch = "1" -> 1 [] ch = "2" -> 2 [] ch = "3" -> 3 [] ch = "4" -> 4
      [] ch = "5" -> 5 [] ch = "6" -> 6 [] ch = "7" -> 7 [] ch = "8" -> 8 [] ch = "9" -> 9

RECURSIVE Number(_)
Number(digits) ==
    IF Len(digits) = 0 THEN 0
    ELSE 10 * Number(SubSeq(digits, 1, Len(digits) - 1)) + DigitValue(digits[Len(digits)])

\* s.indexOf(sub, from), 0-based; -1 when absent
IndexOfFrom(s, sub, from) ==
    LET at == {i \in Max(from, 0)..(Len(s) - Len(sub)) : SubSeq(s, i + 1, i + Len(sub)) = sub}
    IN  IF at = {} THEN -1 ELSE CHOOSE i \in at : \A j \in at : i <= j

StrIncludes(s, sub) == IndexOfFrom(s, sub, 0) >= 0

\* s.replace(/\s/g, '')
RemoveSpaces(s) == SelectSeq(s, LAMBDA ch : ~IsSpace(ch))

\* arr.includes(x)
ArrIncludes(arr, x) == \E i \in 1..Len(arr) : arr[i] = x

\* length of the run of digits of s from 0-based offset i
DigitRun(s, i) ==
    LET stops == {j \in i..Len(s) : j = Len(s) \/ ~IsDigit(s[j + 1])}
    IN  (CHOOSE j \in stops : \A k \in stops : j <= k) - i

\* /\$\{\d+\}/ matches at 0-based offset i: the length of the match, else 0
TabStopAt(s, i) ==
    LET run == DigitRun(s, i + 2)
    IN  IF /\ i + 2 <= Len(s)
           /\ s[i + 1] = "$" /\ s[i + 2] = "{"
           /\ run > 0
           /\ i + 2 + run < Len(s)
           /\ s[i + 2 + run + 1] = "}"
        THEN run + 3
        ELSE 0

\* /\$\{\d+:([^\}]+)\}/ matches at 0-based offset i: [len, from, to] of the match
\* and of its group, len = 0 when there is no match
PlaceholderAt(s, i) ==
    LET run == DigitRun(s, i + 2)
        colon == i + 2 + run
        closes == {j \in (colon + 1)..(Len(s) - 1) : s[j + 1] = "}"}
        close == CHOOSE j \in closes : \A k \in closes : j <= k
    IN  IF /\ i + 2 <= Len(s)
           /\ s[i + 1] = "$" /\ s[i + 2] = "{"
           /\ run > 0
           /\ colon < Len(s)
           /\ s[colon + 1] = ":"
           /\ closes # {}
           /\ close > colon + 1
        THEN [len |-> close + 1 - i, from |-> colon + 1, to |-> close]
        ELSE [len |-> 0, from |-> 0, to |-> 0]

\* s.replace(/([^\\])\$\{\d+\}/g, '$1' + cursor), scanning from 0-based offset i
RECURSIVE ReplaceTabStops(_, _, _)
ReplaceTabStops(s, i, cursor) ==
    IF i >= Len(s)
    THEN <<>>
    ELSE IF s[i + 1] # "\\" /\ TabStopAt(s, i + 1) > 0
    THEN <<s[i + 1]>> \o cursor \o ReplaceTabStops(s, i + 1 + TabStopAt(s, i + 1), cursor)
    ELSE <<s[i + 1]>> \o ReplaceTabStops(s, i + 1, cursor)

\* s.replace(/\$\{\d+:([^\}]+)\}/g, '$1'), scanning from 0-based offset i
RECURSIVE ReplacePlaceholders(_, _)
ReplacePlaceholders(s, i) ==
    IF i >= Len(s)
    THEN <<>>
    ELSE LET m == PlaceholderAt(s, i)
         IN IF m.len > 0
            THEN Substring(s, m.from, m.to) \o ReplacePlaceholders(s, i + m.len)
            ELSE <<s[i + 1]>> \o ReplacePlaceholders(s, i + 1)

replaceTabStopsWithCursors(expandedWord) ==
    ReplacePlaceholders(ReplaceTabStops(expandedWord, 0, <<"|">>), 0)

removeTabStops(expandedWord) ==
    ReplacePlaceholders(ReplaceTabStops(expandedWord, 0, <<>>), 0)

\* text.replace(/([^\\])(\$)([^\{])/g, '$1\\$2$3'), scanning from 0-based offset i
RECURSIVE EscapeDollars(_, _)
EscapeDollars(text, i) ==
    IF i >= Len(text)
    THEN <<>>
    ELSE IF i + 3 <= Len(text) /\ text[i + 1] # "\\" /\ text[i + 2] = "$" /\ text[i + 3] # "{"
    THEN <<text[i + 1], "\\", "$", text[i + 3]>> \o EscapeDollars(text, i + 3)
    ELSE <<text[i + 1]>> \o EscapeDollars(text, i + 1)

escapeNonTabStopDollar(text) == IF Len(text) = 0 THEN text ELSE EscapeDollars(text, 0)

\* the scan of addFinalTabStop from 0-based offset i; st holds maxTabStop,
\* maxTabStopRanges, foundLastStop and replaceWithLastStop
RECURSIVE FinalTabStopScan(_, _, _)
FinalTabStopScan(text, i, st) ==
    LET n == Len(text)
        \* text[i++] != '$' || text[i++] != '{'
        afterLookup == IF text[i + 1] # "$" THEN i + 1 ELSE i + 2
        isOpen == text[i + 1] = "$" /\ i + 1 < n /\ text[i + 2] = "{"
        run == DigitRun(text, afterLookup)
        numberStart == afterLookup
        numberEnd == afterLookup + run
        notTabStop == run = 0 \/ numberEnd >= n \/ text[numberEnd + 1] \notin {"}", ":"}
        currentTabStop == Substring(text, numberStart, numberEnd)
        isPlaceholder == text[numberEnd + 1] = ":"
        closes == {j \in (numberEnd + 1)..(n - 1) : text[j + 1] = "}"}
        foundPlaceholder == isPlaceholder /\ closes # {}
        afterStop == IF ~isPlaceholder THEN numberEnd + 1
                     ELSE IF closes = {} THEN Max(n, numberEnd + 1)
                     ELSE CHOOSE j \in closes : \A k \in closes : j <= k
        range == [numberStart |-> numberStart, numberEnd |-> numberEnd]
        updated == IF Number(currentTabStop) > st.maxTabStop
                   THEN [st EXCEPT !.maxTabStop = Number(currentTabStop),
                                   !.maxTabStopRanges = <<range>>,
                                   !.replaceWithLastStop = ~foundPlaceholder]
                   ELSE IF Number(currentTabStop) = st.maxTabStop
                   THEN [st EXCEPT !.maxTabStopRanges = Append(@, range)]
                   ELSE st
    IN  IF i >= n
        THEN st
        ELSE IF ~isOpen
        THEN FinalTabStopScan(text, afterLookup, st)
        ELSE IF notTabStop
        THEN FinalTabStopScan(text, numberEnd, st)
        ELSE IF currentTabStop = <<"0">>
        THEN [st EXCEPT !.foundLastStop = TRUE]
        ELSE FinalTabStopScan(text, afterStop, updated)

\* the final loop with text.substr(rangeStart) for text.substr(rangeEnd): the old
\* number stays behind the '0'
RECURSIVE ReplaceRanges_keepsNumber(_, _, _)
ReplaceRanges_keepsNumber(text, ranges, i) ==
    IF i > Len(ranges)
    THEN text
    ELSE ReplaceRanges_keepsNumber(Substring(text, 0, ranges[i].numberStart) \o <<"0">>
                                        \o SubstrFrom(text, ranges[i].numberStart),
                                   ranges, i + 1)

\* text.substr(0, rangeStart) + '0' + text.substr(rangeEnd), range after range
RECURSIVE ReplaceRanges(_, _, _)
ReplaceRanges(text, ranges, i) ==
    IF i > Len(ranges)
    THEN text
    ELSE ReplaceRanges(Substring(text, 0, ranges[i].numberStart) \o <<"0">>
                            \o SubstrFrom(text, ranges[i].numberEnd),
                       ranges, i + 1)

addFinalTabStop(text) ==
    LET st == FinalTabStopScan(text, 0,
                               [maxTabStop |-> -1, maxTabStopRanges |-> <<>>,
                                foundLastStop |-> FALSE, replaceWithLastStop |-> FALSE])
    IN  IF Len(text) = 0 \/ Len(Trim(text)) = 0
        THEN text
        ELSE IF st.replaceWithLastStop /\ ~st.foundLastStop
        THEN ReplaceRanges(text, st.maxTabStopRanges, 1)
        ELSE text

(***************************************************************************)
(* Data and external capabilities of the completion provider               *)
(***************************************************************************)
S_div == <<"d", "i", "v">>
S_lorem == <<"l", "o", "r", "e", "m">>

\* htmlData.tags: a sample of the tag list
htmlDataTags == <<<<"a">>, S_div, <<"d", "l">>, <<"s", "p", "a", "n">>>>

\* cssData.properties: a sample of the property list
cssDataProperties == <<<<"w", "i", "d", "t", "h">>, <<"m", "a", "r", "g", "i", "n">>>>

commonlyUsedTags == htmlDataTags \o <<S_lorem>>

\* resolveConfig(...).snippets of emmet: a sample of its markup snippets
DefaultMarkupSnippets ==
    << <<<<"a">>, <<"a", "[", "h", "r", "e", "f", "]">>>>,
       <<<<"a", ":", "l">>, <<"a", "[", "h", "r", "e", "f", "=", "'", "#", "'", "]">>>>,
       <<<<"b", "q">>, <<"b", "l", "o", "c", "k", "q", "u", "o", "t", "e">>>> >>

\* resolveConfig(...).snippets of emmet: a sample of its stylesheet snippets
DefaultStylesheetSnippets ==
    << <<<<"m">>, <<"m", "a", "r", "g", "i", "n">>>>,
       <<<<"w">>, <<"w", "i", "d", "t", "h">>>>,
       <<<<"c">>, <<"c", "o", "l", "o", "r">>>> >>

getDefaultSnippets(syntax) ==
    IF syntax = "xml" THEN <<>>
    ELSE IF getSyntaxType(syntax) = "stylesheet" THEN DefaultStylesheetSnippets
    ELSE DefaultMarkupSnippets

getEmmetMode(language, excludedLanguages) ==
    IF language = "" \/ language \in excludedLanguages THEN NotGiven
    ELSE IF language \in {"typescriptreact", "javascriptreact", "jsx-tags"} THEN Given("jsx")
    ELSE IF language = "sass-indented" THEN Given("sass")
    ELSE IF language = "jade" THEN Given("pug")
    ELSE IF language \in MarkupSyntaxes \/ language \in StylesheetSyntaxes THEN Given(language)
    ELSE NotGiven

\* what the external expand does with the abbreviations of a request: it
\* throws or gives the empty string on those in `on`
NoFault == [mode |-> "none", on |-> {}]

S_tabstop1 == <<"$", "{", "1", "}">>
S_tabstop0 == <<"$", "{", "0", "}">>

Element(name, inner) == <<"<">> \o name \o <<">">> \o inner \o <<"<", "/">> \o name \o <<">">>

\* markup output of emmet: nesting by `>`, snippets by name, else a tag of that name
RECURSIVE MarkupText(_, _)
MarkupText(abbr, snippets) ==
    LET gt == IndexOfFrom(abbr, <<">">>, 0)
        custom == IF IsObject(snippets) /\ Has(snippets.v, abbr)
                  THEN Get(snippets.v, abbr)
                  ELSE <<>>
    IN  IF gt > 0 /\ gt < Len(abbr) - 1
        THEN Element(Substring(abbr, 0, gt), MarkupText(SubstrFrom(abbr, gt + 1), snippets))
        ELSE IF StartsWith(custom, <<"{">>) /\ EndsWith(custom, <<"}">>)
        THEN Substring(custom, 1, Len(custom) - 1)
        ELSE IF abbr = <<"b", "q">>
        THEN Element(Get(DefaultMarkupSnippets, abbr), S_tabstop1)
        ELSE Element(abbr, S_tabstop1)

\* stylesheet output of emmet: `property: value;` with the configured separators
StylesheetText(abbr, snippets, options) ==
    LET between == Get(options, "stylesheet.between").v
        after == Get(options, "stylesheet.after").v
        custom == IF IsObject(snippets) /\ Has(snippets.v, abbr)
                  THEN Get(snippets.v, abbr)
                  ELSE <<>>
        colon == IndexOfFrom(custom, <<":">>, 0)
    IN  IF colon > 0
        THEN Substring(custom, 0, colon) \o between \o SubstrFrom(custom, colon + 1) \o after
        ELSE IF Has(DefaultStylesheetSnippets, abbr)
        THEN Get(DefaultStylesheetSnippets, abbr) \o between \o S_tabstop0 \o after
        ELSE abbr \o between \o S_tabstop0 \o after

\* expand(abbr, expandOptions) of emmet
expand(abbr, expandOptions, fault) ==
    IF fault.mode = "throws" /\ abbr \in fault.on
    THEN [threw |-> TRUE, text |-> <<>>]
    ELSE IF fault.mode = "empty" /\ abbr \in fault.on
    THEN [threw |-> FALSE, text |-> <<>>]
    ELSE [threw |-> FALSE,
          text |-> IF expandOptions.type = "stylesheet"
                   THEN StylesheetText(abbr, expandOptions.snippets, expandOptions.options)
                   ELSE MarkupText(abbr, expandOptions.snippets)]

(***************************************************************************)
(* isAbbreviationValid and isExpandedTextNoise                             *)
(***************************************************************************)
NestingOperators == {">", "+", "*", "^"}

\* /^#[\d,a-f,A-F]{1,6}$/
IsHexColor(s) ==
    /\ Len(s) >= 2 /\ Len(s) <= 7
    /\ s[1] = "#"
    /\ \A i \in 2..Len(s) : IsDigit(s[i]) \/ IsHexLetter(s[i]) \/ s[i] = ","

\* /^-?[a-z,A-Z,!,@,#]/
cssAbbreviationRegex(s) ==
    LET first(ch) == IsLetter(ch) \/ ch \in {",", "!", "@", "#"}
    IN  \/ Len(s) >= 1 /\ first(s[1])
        \/ Len(s) >= 2 /\ s[1] = "-" /\ first(s[2])

\* /^[a-z,A-Z,!,(,[,#,\.\{]/
htmlAbbreviationStartRegex(s) ==
    Len(s) >= 1 /\ (IsLetter(s[1]) \/ s[1] \in {",", "!", "(", "[", "#", ".", "{"})

\* /^[a-z,A-Z,!,(,[,#,\.]/
jsxAbbreviationStartRegex(s) ==
    Len(s) >= 1 /\ (IsLetter(s[1]) \/ s[1] \in {",", "!", "(", "[", "#", "."})

\* /[a-z,A-Z\.]/
htmlAbbreviationRegex(s) == \E i \in 1..Len(s) : IsLetter(s[i]) \/ s[i] \in {",", "."}

\* /\{[^\}\{]*[\(\)]+[^\}\{]*\}(?:[>\+\*\^]|$)/
ParenInTextNode(s) ==
    \E i \in 1..Len(s), j \in 1..Len(s) :
        /\ i < j /\ s[i] = "{" /\ s[j] = "}"
        /\ \A k \in (i + 1)..(j - 1) : s[k] \notin {"{", "}"}
        /\ \E k \in (i + 1)..(j - 1) : s[k] \in {"(", ")"}
        /\ (j = Len(s) \/ s[j + 1] \in NestingOperators)

\* /\(.*\)[>\+\*\^]/
GroupThenOperator(s) ==
    \E i \in 1..Len(s), j \in 1..Len(s) :
        /\ i < j /\ s[i] = "(" /\ s[j] = ")"
        /\ \A k \in (i + 1)..(j - 1) : s[k] # "\n"
        /\ j < Len(s) /\ s[j + 1] \in NestingOperators

\* /\[[^\[\]\(\)]+=".*"\]/
AttributeWithValue(s) ==
    \E i \in 1..Len(s), m \in 1..Len(s), j \in 1..Len(s) :
        /\ s[i] = "[" /\ m >= i + 2 /\ s[m] = "=" /\ m + 1 <= Len(s) /\ s[m + 1] = "\""
        /\ \A k \in (i + 1)..(m - 1) : s[k] \notin {"[", "]", "(", ")"}
        /\ j >= m + 3 /\ s[j] = "]" /\ s[j - 1] = "\""
        /\ \A k \in (m + 2)..(j - 2) : s[k] # "\n"

\* /[>\+\*\^]\(.*\)/
OperatorThenGroup(s) ==
    \E i \in 1..Len(s), j \in 1..Len(s) :
        /\ s[i] \in NestingOperators /\ i + 1 <= Len(s) /\ s[i + 1] = "("
        /\ j >= i + 2 /\ s[j] = ")"
        /\ \A k \in (i + 2)..(j - 1) : s[k] # "\n"

isAbbreviationValid(syntax, abbreviation) ==
    LET hash == IndexOfFrom(abbreviation, <<"#">>, 0)
        hasParen == \E i \in 1..Len(abbreviation) : abbreviation[i] \in {"(", ")"}
    IN  IF Len(abbreviation) = 0 THEN FALSE
        ELSE IF isStyleSheet(syntax)
        THEN IF hash = 0 THEN IsHexColor(abbreviation)
             ELSE IF hash > 0 /\ ArrIncludes(commonlyUsedTags, Substring(abbreviation, 0, hash))
             THEN FALSE
             ELSE cssAbbreviationRegex(abbreviation)
        ELSE IF abbreviation[1] = "!"
        THEN \A i \in 1..Len(abbreviation) : abbreviation[i] = "!"
        ELSE IF /\ hasParen
                /\ ~ParenInTextNode(abbreviation)
                /\ ~GroupThenOperator(abbreviation)
                /\ ~AttributeWithValue(abbreviation)
                /\ ~OperatorThenGroup(abbreviation)
        THEN FALSE
        ELSE IF syntax = "jsx"
        THEN jsxAbbreviationStartRegex(abbreviation) /\ htmlAbbreviationRegex(abbreviation)
        ELSE htmlAbbreviationStartRegex(abbreviation) /\ htmlAbbreviationRegex(abbreviation)

\* /^([a-z,A-Z,\d]*)\.$/: the group, when the abbreviation matches
DotMatches(abbreviation) ==
    IF /\ Len(abbreviation) >= 1
       /\ abbreviation[Len(abbreviation)] = "."
       /\ \A i \in 1..(Len(abbreviation) - 1) :
            IsLetter(abbreviation[i]) \/ IsDigit(abbreviation[i]) \/ abbreviation[i] = ","
    THEN Given(Substring(abbreviation, 0, Len(abbreviation) - 1))
    ELSE NotGiven

\* /^([A-Z][A-Za-z0-9]*)+$/
IsPascalCase(s) ==
    /\ Len(s) >= 1 /\ IsUpper(s[1])
    /\ \A i \in 1..Len(s) : IsLetter(s[i]) \/ IsDigit(s[i])

S_undefined == <<"u", "n", "d", "e", "f", "i", "n", "e", "d">>

\* isExpandedTextNoise comparing with the `${1}` template of the older source
isExpandedTextNoise_firstStop(syntax, abbreviation, expandedText, options, keys) ==
    LET between == IF Has(options, "stylesheet.between") /\ Get(options, "stylesheet.between").t # "undefined"
                   THEN Get(options, "stylesheet.between").v
                   ELSE <<":", " ">>
        after == IF Has(options, "stylesheet.after") /\ Get(options, "stylesheet.after").t # "undefined"
                 THEN Get(options, "stylesheet.after").v
                 ELSE <<";">>
        found == IndexOfFrom(abbreviation,
                             IF Len(between) > 0 THEN <<between[1]>> ELSE S_undefined,
                             Max(Len(abbreviation) - Len(between), 0))
        endPrefixIndex == IF found >= 0 THEN found ELSE Len(abbreviation)
        abbr == Substring(abbreviation, 0, endPrefixIndex)
        lower == toLowerCase(abbreviation)
        hasDashOrColon == \E i \in 1..Len(abbreviation) : abbreviation[i] \in {"-", ",", ":"}
        dotMatches == DotMatches(abbreviation)
    IN  IF isStyleSheet(syntax)
        THEN \/ expandedText = abbr \o between \o S_tabstop1 \o after
             \/ RemoveSpaces(expandedText) = RemoveSpaces(abbreviation) \o after
        ELSE IF syntax = "xml" /\ \E i \in 1..Len(commonlyUsedTags) : StartsWith(commonlyUsedTags[i], lower)
        THEN TRUE
        ELSE IF ArrIncludes(commonlyUsedTags, lower) \/ ArrIncludes(keys, abbreviation)
        THEN FALSE
        ELSE IF /\ hasDashOrColon
                /\ ~StrIncludes(abbreviation, <<"-", "-">>)
                /\ ~StrIncludes(abbreviation, <<":", ":">>)
                /\ ~EndsWith(abbreviation, <<":">>)
        THEN FALSE
        ELSE IF abbreviation = <<".">>
        THEN FALSE
        ELSE IF dotMatches.given
        THEN ~(Len(dotMatches.v) > 0 /\ ArrIncludes(htmlDataTags, dotMatches.v))
        ELSE IF syntax = "jsx" /\ IsPascalCase(abbreviation)
        THEN FALSE
        ELSE toLowerCase(expandedText) = Element(lower, S_tabstop1)

\* isExpandedTextNoise without the exception for common tags and snippet keys
isExpandedTextNoise_noKnownNames(syntax, abbreviation, expandedText, options, keys) ==
    LET between == IF Has(options, "stylesheet.between") /\ Get(options, "stylesheet.between").t # "undefined"
                   THEN Get(options, "stylesheet.between").v
                   ELSE <<":", " ">>
        after == IF Has(options, "stylesheet.after") /\ Get(options, "stylesheet.after").t # "undefined"
                 THEN Get(options, "stylesheet.after").v
                 ELSE <<";">>
        found == IndexOfFrom(abbreviation,
                             IF Len(between) > 0 THEN <<between[1]>> ELSE S_undefined,
                             Max(Len(abbreviation) - Len(between), 0))
        endPrefixIndex == IF found >= 0 THEN found ELSE Len(abbreviation)
        abbr == Substring(abbreviation, 0, endPrefixIndex)
        lower == toLowerCase(abbreviation)
        hasDashOrColon == \E i \in 1..Len(abbreviation) : abbreviation[i] \in {"-", ",", ":"}
        dotMatches == DotMatches(abbreviation)
    IN  IF isStyleSheet(syntax)
        THEN \/ expandedText = abbr \o between \o S_tabstop0 \o after
             \/ RemoveSpaces(expandedText) = RemoveSpaces(abbreviation) \o after
        ELSE IF syntax = "xml" /\ \E i \in 1..Len(commonlyUsedTags) : StartsWith(commonlyUsedTags[i], lower)
        THEN TRUE
        ELSE IF /\ hasDashOrColon
                /\ ~StrIncludes(abbreviation, <<"-", "-">>)
                /\ ~StrIncludes(abbreviation, <<":", ":">>)
                /\ ~EndsWith(abbreviation, <<":">>)
        THEN FALSE
        ELSE IF abbreviation = <<".">>
        THEN FALSE
        ELSE IF dotMatches.given
        THEN ~(Len(dotMatches.v) > 0 /\ ArrIncludes(htmlDataTags, dotMatches.v))
        ELSE IF syntax = "jsx" /\ IsPascalCase(abbreviation)
        THEN FALSE
        ELSE toLowerCase(expandedText) = Element(lower, S_tabstop1)

\* keys: markupSnippetKeys as the request left it
isExpandedTextNoise(syntax, abbreviation, expandedText, options, keys) ==
    LET between == IF Has(options, "stylesheet.between") /\ Get(options, "stylesheet.between").t # "undefined"
                   THEN Get(options, "stylesheet.between").v
                   ELSE <<":", " ">>
        after == IF Has(options, "stylesheet.after") /\ Get(options, "stylesheet.after").t # "undefined"
                 THEN Get(options, "stylesheet.after").v
                 ELSE <<";">>
        found == IndexOfFrom(abbreviation,
                             IF Len(between) > 0 THEN <<between[1]>> ELSE S_undefined,
                             Max(Len(abbreviation) - Len(between), 0))
        endPrefixIndex == IF found >= 0 THEN found ELSE Len(abbreviation)
        abbr == Substring(abbreviation, 0, endPrefixIndex)
        lower == toLowerCase(abbreviation)
        hasDashOrColon == \E i \in 1..Len(abbreviation) : abbreviation[i] \in {"-", ",", ":"}
        dotMatches == DotMatches(abbreviation)
    IN  IF isStyleSheet(syntax)
        THEN \/ expandedText = abbr \o between \o S_tabstop0 \o after
             \/ RemoveSpaces(expandedText) = RemoveSpaces(abbreviation) \o after
        ELSE IF syntax = "xml" /\ \E i \in 1..Len(commonlyUsedTags) : StartsWith(commonlyUsedTags[i], lower)
        THEN TRUE
        ELSE IF ArrIncludes(commonlyUsedTags, lower) \/ ArrIncludes(keys, abbreviation)
        THEN FALSE
        ELSE IF /\ hasDashOrColon
                /\ ~StrIncludes(abbreviation, <<"-", "-">>)
                /\ ~StrIncludes(abbreviation, <<":", ":">>)
                /\ ~EndsWith(abbreviation, <<":">>)
        THEN FALSE
        ELSE IF abbreviation = <<".">>
        THEN FALSE
        ELSE IF dotMatches.given
        THEN ~(Len(dotMatches.v) > 0 /\ ArrIncludes(htmlDataTags, dotMatches.v))
        ELSE IF syntax = "jsx" /\ IsPascalCase(abbreviation)
        THEN FALSE
        ELSE toLowerCase(expandedText) = Element(lower, S_tabstop1)

(***************************************************************************)
(* doComplete                                                              *)
(***************************************************************************)
\* /[\w,:,-,\.]*$/ of getCurrentWord: word characters, comma, colon and dot
getCurrentWord(currentLineTillPosition) ==
    LET s == currentLineTillPosition
        inClass(ch) == IsWordChar(ch) \/ ch \in {",", ":", "."}
        starts == {i \in 0..Len(s) : \A k \in (i + 1)..Len(s) : inClass(s[k])}
    IN  IF Len(s) = 0
        THEN NotGiven
        ELSE Given(SubstrFrom(s, CHOOSE i \in starts : \A j \in starts : i <= j))

S_EmmetAbbreviation == <<"Emmet Abbreviation">>

S_EmmetCustomSnippet == <<"Emmet Custom Snippet">>

\* CompletionItem.create(label) with the fields the provider sets
CompletionItem(label, expandedText, abbreviationRange, detail) ==
    [label |-> label,
     documentation |-> replaceTabStopsWithCursors(expandedText),
     detail |-> detail,
     textEdit |-> [range |-> abbreviationRange,
                   newText |-> escapeNonTabStopDollar(addFinalTabStop(expandedText))],
     insertTextFormat |-> "Snippet",
     filterText |-> NotGiven,
     sortText |-> NotGiven,
     kind |-> NotGiven]

\* the end of the forEach body of makeSnippetSuggestion: the item of a key
\* whose expansion gave text
SuggestionItem(expandedAbbr, snippetKey, prefix, abbreviationRange, snippetDetail) ==
    IF expandedAbbr.threw \/ Len(expandedAbbr.text) = 0
    THEN NotGiven
    ELSE Given(CompletionItem(prefix \o SubstrFrom(snippetKey, Len(prefix)),
                              expandedAbbr.text, abbreviationRange, snippetDetail))

\* the body of makeSnippetSuggestion's forEach
SnippetSuggestion(snippetKey, prefix, abbreviation, abbreviationRange, expandOptions, snippetDetail, skipFullMatch, fault) ==
    IF \/ ~StartsWith(snippetKey, toLowerCase(prefix))
       \/ (skipFullMatch /\ snippetKey = toLowerCase(prefix))
    THEN NotGiven
    ELSE SuggestionItem(expand(abbreviation \o SubstrFrom(snippetKey, Len(prefix)),
                               expandOptions, fault),
                        snippetKey, prefix, abbreviationRange, snippetDetail)

IsGiven(x) == x.given

Values(made) == [i \in 1..Len(made) |-> made[i].v]

makeSnippetSuggestion(snippetKeys, prefix, abbreviation, abbreviationRange, expandOptions, snippetDetail, skipFullMatch, fault) ==
    IF Len(prefix) = 0
    THEN <<>>
    ELSE Values(SelectSeq([i \in 1..Len(snippetKeys) |->
                            SnippetSuggestion(snippetKeys[i], prefix, abbreviation,
                                              abbreviationRange, expandOptions, snippetDetail,
                                              skipFullMatch, fault)],
                          IsGiven))

\* filter.replace(',', '|'): the first comma only
ReplaceFirstComma(filter) ==
    LET i == IndexOfFrom(filter, <<",">>, 0)
    IN  IF i < 0 THEN filter ELSE Substring(filter, 0, i) \o <<"|">> \o SubstrFrom(filter, i + 1)

S_important == <<"!", "i", "m", "p", "o", "r", "t", "a", "n", "t">>

\* expandedAbbr.label: the abbreviation and, after a `|`, its filters
PrimaryLabel(abbreviation, filter) ==
    abbreviation \o (IF filter.given /\ Len(filter.v) > 0
                     THEN <<"|">> \o ReplaceFirstComma(filter.v)
                     ELSE <<>>)

\* the try block of createExpandedAbbr: expandedText after it
PrimaryText(syntax, abbreviation, expanded) ==
    IF expanded.threw THEN <<>>
    ELSE IF isStyleSheet(syntax) /\ StartsWith(S_important, abbreviation) THEN S_important
    ELSE expanded.text

\* the end of createExpandedAbbr: expandedAbbr, unless the text is empty or noise
PrimaryItem(syntax, abbreviation, abbreviationRange, filter, options, keys, expandedText) ==
    [expandedText |-> expandedText,
     expandedAbbr |->
        IF Len(expandedText) = 0
           \/ isExpandedTextNoise(syntax, abbreviation, expandedText, options, keys)
        THEN NotGiven
        ELSE Given([CompletionItem(abbreviation, expandedText, abbreviationRange,
                                   S_EmmetAbbreviation)
                    EXCEPT !.label = PrimaryLabel(abbreviation, filter)])]

\* createExpandedAbbr: what it leaves in expandedText and expandedAbbr
createExpandedAbbr(syntax, abbreviation, abbreviationRange, filter, expandOptions, keys, fault) ==
    IF ~isAbbreviationValid(syntax, abbreviation)
    THEN [expandedText |-> <<>>, expandedAbbr |-> NotGiven]
    ELSE PrimaryItem(syntax, abbreviation, abbreviationRange, filter, expandOptions.options, keys,
                     PrimaryText(syntax, abbreviation, expand(abbreviation, expandOptions, fault)))

\* new RegExp('.*' + abbreviation.split('').map(...).join('.*') + '.*', 'i')
\* throws on an abbreviation whose parentheses or brackets do not pair up
RECURSIVE Depth(_, _)
Depth(s, i) ==
    IF i = 0 THEN 0
    ELSE LET d == Depth(s, i - 1)
         IN IF d < 0 THEN d
            ELSE IF s[i] = "(" THEN d + 1
            ELSE IF s[i] = ")" THEN d - 1
            ELSE d

abbrRegexThrows(abbreviation) ==
    \/ Depth(abbreviation, Len(abbreviation)) # 0
    \/ \E i \in 1..Len(abbreviation) : abbreviation[i] \in {"[", "*"}

\* end of the leftmost match of the first i characters of the abbreviation in
\* the label, each followed by `.*`; Len(label) + 1 when there is none
RECURSIVE AbbrRegexMatchEnd(_, _, _)
AbbrRegexMatchEnd(abbreviation, i, label) ==
    IF i = 0 THEN 0
    ELSE LET from == AbbrRegexMatchEnd(abbreviation, i - 1, label)
             ch == abbreviation[i]
             hits == {j \in (from + 1)..Len(label) :
                        \/ ch = "." /\ label[j] # "\n"
                        \/ LowerChar(label[j]) = LowerChar(ch)}
         IN IF ch \in {"(", ")"} THEN from
            ELSE IF hits = {} THEN Len(label) + 1
            ELSE CHOOSE j \in hits : \A k \in hits : j <= k

abbrRegexTest(abbreviation, label) ==
    AbbrRegexMatchEnd(abbreviation, Len(abbreviation), label) <= Len(label)

\* /(>|\+)([\w:-]+)$/ of the markup branch: the tag after the last `>` or `+`
NewTagMatch(abbreviation) ==
    LET ops == {i \in 1..Len(abbreviation) : abbreviation[i] \in {">", "+"}}
        last == CHOOSE i \in ops : \A j \in ops : j <= i
        tag == SubstrFrom(abbreviation, last)
    IN  IF /\ ops # {}
           /\ Len(tag) > 0
           /\ \A k \in 1..Len(tag) : IsWordChar(tag[k]) \/ tag[k] \in {":", "-"}
        THEN Given(tag)
        ELSE NotGiven

Undefined(extracted, keyCache, keys) ==
    [outcome |-> "undefined", items |-> <<>>, extracted |-> extracted,
     snippetKeyCache |-> keyCache, markupSnippetKeys |-> keys]

Thrown(extracted, keyCache, keys) ==
    [outcome |-> "throws", items |-> <<>>, extracted |-> extracted,
     snippetKeyCache |-> keyCache, markupSnippetKeys |-> keys]

CompletionList(items, extracted, keyCache, keys) ==
    [outcome |-> "list", items |-> items, extracted |-> extracted,
     snippetKeyCache |-> keyCache, markupSnippetKeys |-> keys]

NotExtracted ==
    [threw |-> FALSE, found |-> FALSE, abbreviation |-> <<>>,
     abbreviationRange |-> NoRange, filter |-> NotGiven]

\* expandedAbbr as the stylesheet branch rewrites it
StylesheetPrimary(created, abbreviation, abbreviationRange) ==
    [created.expandedAbbr.v EXCEPT
        !.textEdit = [range |-> abbreviationRange,
                      newText |-> escapeNonTabStopDollar(addFinalTabStop(created.expandedText))],
        !.documentation = replaceTabStopsWithCursors(created.expandedText),
        !.label = removeTabStops(created.expandedText),
        !.filterText = Given(abbreviation)]

\* the custom snippet suggestions, and expandedAbbr unless one of them inserts
\* the same text or its label does not match the abbreviation
StylesheetItems(abbreviation, expandedAbbr, completionItems) ==
    IF \E i \in 1..Len(completionItems) :
            /\ Len(completionItems[i].textEdit.newText) > 0
            /\ completionItems[i].textEdit.newText = expandedAbbr.textEdit.newText
    THEN [threw |-> FALSE, items |-> completionItems]
    ELSE IF abbrRegexThrows(abbreviation)
    THEN [threw |-> TRUE, items |-> <<>>]
    ELSE IF \/ \E i \in 1..Len(abbreviation) : IsDigit(abbreviation[i])
            \/ abbrRegexTest(abbreviation, expandedAbbr.label)
    THEN [threw |-> FALSE, items |-> Append(completionItems, expandedAbbr)]
    ELSE [threw |-> FALSE, items |-> completionItems]

\* the stylesheet branch of doComplete: the completion items, or a throw
StylesheetCompletions(syntax, abbreviation, abbreviationRange, expandOptions, created, fault) ==
    IF ~(created.expandedAbbr.given /\ Len(created.expandedText) > 0)
    THEN [threw |-> FALSE, items |-> <<>>]
    ELSE StylesheetItems(
            abbreviation,
            StylesheetPrimary(created, abbreviation, abbreviationRange),
            makeSnippetSuggestion(
                IF Has(stylesheetCustomSnippetsKeyCache, syntax)
                THEN Get(stylesheetCustomSnippetsKeyCache, syntax)
                ELSE IF Has(stylesheetCustomSnippetsKeyCache, "css")
                THEN Get(stylesheetCustomSnippetsKeyCache, "css")
                ELSE <<>>,
                abbreviation, abbreviation, abbreviationRange, expandOptions,
                S_EmmetCustomSnippet, FALSE, fault))

tagToFindMoreSuggestionsFor(abbreviation) ==
    IF NewTagMatch(abbreviation).given THEN NewTagMatch(abbreviation).v ELSE abbreviation

NotCommonlyUsed(x) == ~ArrIncludes(commonlyUsedTags, x)

\* the end of the markup branch without the sort-text workaround
MarkupItems_noSortText(syntax, abbreviation, created, commonlyUsedTagSuggestions, abbreviationSuggestions) ==
    LET workaround == FALSE
        expandedAbbr == IF workaround
                        THEN [created.expandedAbbr.v EXCEPT
                                !.sortText = Given(<<"0">> \o created.expandedAbbr.v.label)]
                        ELSE created.expandedAbbr.v
        sorted == IF workaround
                  THEN [i \in 1..Len(abbreviationSuggestions) |->
                            [abbreviationSuggestions[i] EXCEPT
                                !.filterText = Given(abbreviation),
                                !.sortText = Given(<<"9">> \o abbreviation)]]
                  ELSE abbreviationSuggestions
        completionItems == (IF created.expandedAbbr.given THEN <<expandedAbbr>> ELSE <<>>)
                                \o commonlyUsedTagSuggestions \o sorted
        otherLabel(item) == item.label # abbreviation
    IN  IF /\ syntax = "html"
           /\ Len(completionItems) >= 2
           /\ StrIncludes(abbreviation, <<":">>)
           /\ created.expandedAbbr.given
           /\ expandedAbbr.textEdit.newText = Element(abbreviation, S_tabstop0)
        THEN SelectSeq(completionItems, otherLabel)
        ELSE completionItems

\* the end of the markup branch: sort texts, concatenation and the filter of
\* https://github.com/microsoft/vscode/issues/66680
MarkupItems(syntax, abbreviation, created, commonlyUsedTagSuggestions, abbreviationSuggestions) ==
    LET workaround == /\ created.expandedAbbr.given
                      /\ Len(abbreviationSuggestions) > 0
                      /\ tagToFindMoreSuggestionsFor(abbreviation) # abbreviation
        expandedAbbr == IF workaround
                        THEN [created.expandedAbbr.v EXCEPT
                                !.sortText = Given(<<"0">> \o created.expandedAbbr.v.label)]
                        ELSE created.expandedAbbr.v
        sorted == IF workaround
                  THEN [i \in 1..Len(abbreviationSuggestions) |->
                            [abbreviationSuggestions[i] EXCEPT
                                !.filterText = Given(abbreviation),
                                !.sortText = Given(<<"9">> \o abbreviation)]]
                  ELSE abbreviationSuggestions
        completionItems == (IF created.expandedAbbr.given THEN <<expandedAbbr>> ELSE <<>>)
                                \o commonlyUsedTagSuggestions \o sorted
        otherLabel(item) == item.label # abbreviation
    IN  IF /\ syntax = "html"
           /\ Len(completionItems) >= 2
           /\ StrIncludes(abbreviation, <<":">>)
           /\ created.expandedAbbr.given
           /\ expandedAbbr.textEdit.newText = Element(abbreviation, S_tabstop0)
        THEN SelectSeq(completionItems, otherLabel)
        ELSE completionItems

\* the markup branch of doComplete: the completion items
MarkupCompletions(syntax, emmetConfig, abbreviation, abbreviationRange, expandOptions, created, keys, fault) ==
    MarkupItems(
        syntax, abbreviation, created,
        IF syntax # "xml"
        THEN makeSnippetSuggestion(commonlyUsedTags, tagToFindMoreSuggestionsFor(abbreviation),
                                   abbreviation, abbreviationRange, expandOptions,
                                   S_EmmetAbbreviation, TRUE, fault)
        ELSE <<>>,
        IF emmetConfig.showAbbreviationSuggestions
        THEN makeSnippetSuggestion(SelectSeq(keys, NotCommonlyUsed),
                                   tagToFindMoreSuggestionsFor(abbreviation), abbreviation,
                                   abbreviationRange, expandOptions, S_EmmetAbbreviation,
                                   TRUE, fault)
        ELSE <<>>)

\* the end of doComplete: the kind of the items and the returned list
CompleteItems(emmetConfig, extractedValue, keyCache, keys, completed) ==
    IF completed.threw
    THEN Thrown(extractedValue, keyCache, keys)
    ELSE IF Len(completed.items) = 0
    THEN Undefined(extractedValue, keyCache, keys)
    ELSE CompletionList(IF emmetConfig.showSuggestionsAsSnippets
                        THEN [i \in 1..Len(completed.items) |->
                                [completed.items[i] EXCEPT !.kind = Given("Snippet")]]
                        ELSE completed.items,
                        extractedValue, keyCache, keys)

\* doComplete once createExpandedAbbr ran: the branch of the syntax type
CompleteCreated(syntax, emmetConfig, fault, keyCache, keys, extractedValue, expandOptions, created) ==
    IF isStyleSheet(syntax)
    THEN IF /\ Len(extractedValue.abbreviation) > 4
            /\ \E i \in 1..Len(cssDataProperties) :
                    StartsWith(cssDataProperties[i], extractedValue.abbreviation)
         THEN CompletionList(<<>>, extractedValue, keyCache, keys)
         ELSE CompleteItems(emmetConfig, extractedValue, keyCache, keys,
                            StylesheetCompletions(syntax, extractedValue.abbreviation,
                                                  extractedValue.abbreviationRange,
                                                  expandOptions, created, fault))
    ELSE CompleteItems(emmetConfig, extractedValue, keyCache, keys,
                       [threw |-> FALSE,
                        items |-> MarkupCompletions(syntax, emmetConfig,
                                                    extractedValue.abbreviation,
                                                    extractedValue.abbreviationRange,
                                                    expandOptions, created, keys, fault)])

\* doComplete once the expand options are there
CompleteExpanded(syntax, emmetConfig, fault, keyCache, keys, extractedValue, expandOptions) ==
    CompleteCreated(syntax, emmetConfig, fault, keyCache, keys, extractedValue, expandOptions,
                    createExpandedAbbr(syntax, extractedValue.abbreviation,
                                       extractedValue.abbreviationRange, extractedValue.filter,
                                       expandOptions, keys, fault))

\* doComplete from the extracted value on
CompleteExtracted(currentLineTillPosition, syntax, emmetConfig, fault, keyCache, keys, extractedValue) ==
    IF extractedValue.threw
    THEN Thrown(extractedValue, keyCache, keys)
    ELSE IF ~extractedValue.found
    THEN Undefined(extractedValue, keyCache, keys)
    ELSE IF /\ getCurrentWord(currentLineTillPosition).given
            /\ getCurrentWord(currentLineTillPosition).v = extractedValue.abbreviation
            /\ EndsWith(currentLineTillPosition, <<"<">> \o extractedValue.abbreviation)
            /\ syntax \in MarkupSyntaxes
    THEN Undefined(extractedValue, keyCache, keys)
    ELSE CompleteExpanded(syntax, emmetConfig, fault, keyCache, keys, extractedValue,
                          getExpandOptions(syntax, emmetConfig, extractedValue.filter))

\* snippetKeyCache after the markup snippet keys were fetched
FetchedKeyCache(syntax) ==
    IF ~isStyleSheet(syntax) /\ ~Has(snippetKeyCache, syntax)
    THEN Put(snippetKeyCache, syntax,
             Keys(Assign(getDefaultSnippets(syntax),
                         IF Has(customSnippetsRegistry, syntax)
                         THEN Get(customSnippetsRegistry, syntax)
                         ELSE <<>>)))
    ELSE snippetKeyCache

\* doComplete once the markup snippet keys were fetched
CompleteFetched(document, position, syntax, emmetConfig, extractOutcome, fault, keyCache) ==
    CompleteExtracted(Substring(getCurrentLine(document, position), 0, position.character),
                      syntax, emmetConfig, fault, keyCache,
                      IF ~isStyleSheet(syntax) THEN Get(keyCache, syntax) ELSE markupSnippetKeys,
                      extractAbbreviation(document, position, extractOutcome))

doComplete(document, position, syntax, emmetConfig, extractOutcome, fault) ==
    IF \/ emmetConfig.showExpandedAbbreviation = "never"
       \/ ~getEmmetMode(syntax, emmetConfig.excludeLanguages).given
    THEN Undefined(NotExtracted, snippetKeyCache, markupSnippetKeys)
    ELSE CompleteFetched(document, position, syntax, emmetConfig, extractOutcome, fault,
                         FetchedKeyCache(syntax))

(***************************************************************************)
(* Requests: configurations and the getExpandOptions call                  *)
(***************************************************************************)
EmmetConfig(show, suggestions, profiles, variables, preferences, asSnippets) ==
    [showExpandedAbbreviation |-> show,
     showAbbreviationSuggestions |-> suggestions,
     syntaxProfiles |-> profiles,
     variables |-> variables,
     preferences |-> preferences,
     excludeLanguages |-> {},
     showSuggestionsAsSnippets |-> asSnippets]

DefaultConfig == EmmetConfig("always", TRUE, <<>>, NotGiven, <<>>, FALSE)

\* settings that override what the extensions directory gives
OverridingConfig ==
    EmmetConfig("always", TRUE,
                << <<"html", JObj(<< <<"tag_case", JS(S_lower)>> >>)>> >>,
                Given(<< <<"lang", "en">> >>),
                <<>>, FALSE)

Configs == {DefaultConfig, OverridingConfig}

\* a request runs to completion in one step, whatever the reloads are doing
GetExpandOptionsRequest(syntax, emmetConfig) ==
    /\ request' = [kind |-> "getExpandOptions",
                   syntax |-> syntax,
                   emmetConfig |-> emmetConfig,
                   result |-> getExpandOptions(syntax, emmetConfig, NotGiven),
                   snippets |-> customSnippetsRegistry,
                   variables |-> variablesFromFile,
                   profiles |-> profilesFromFile,
                   duringReload |-> {p \in Procs : InFlight(p)}]
    /\ UNCHANGED <<custVars, markupSnippetKeys, reload>>

\* the effect of a doComplete call that gave `result`
Completed(document, position, syntax, emmetConfig, extractOutcome, fault, result) ==
    /\ snippetKeyCache' = result.snippetKeyCache
    /\ markupSnippetKeys' = result.markupSnippetKeys
    /\ request' = [kind |-> "doComplete",
                   document |-> document,
                   position |-> position,
                   syntax |-> syntax,
                   emmetConfig |-> emmetConfig,
                   extractOutcome |-> extractOutcome,
                   fault |-> fault,
                   result |-> result,
                   duringReload |-> {p \in Procs : InFlight(p)}]
    /\ UNCHANGED <<customSnippetsRegistry, variablesFromFile, profilesFromFile,
                   stylesheetCustomSnippetsKeyCache, reload>>

\* doComplete runs to completion in one step; it writes the markup key cache
DoCompleteRequest(document, position, syntax, emmetConfig, extractOutcome, fault) ==
    Completed(document, position, syntax, emmetConfig, extractOutcome, fault,
              doComplete(document, position, syntax, emmetConfig, extractOutcome, fault))

\* a document of one line and the position at its end
OneLine(line) == [text |-> line]

AtEnd(line) == [line |-> 0, character |-> Len(line)]

\* what is typed when a request arrives during or after a reload
TypedDuringReload ==
    {[syntax |-> "html", line |-> <<"h">>], [syntax |-> "css", line |-> <<"c">>]}

(***************************************************************************)
(* The reload specification: one updateExtensionsPath call at a time (the  *)
(* caller awaits it before the next), requests at any moment               *)
(***************************************************************************)
Init ==
    /\ customSnippetsRegistry = <<>>
    /\ variablesFromFile = <<>>
    /\ profilesFromFile = <<>>
    /\ snippetKeyCache = <<>>
    /\ stylesheetCustomSnippetsKeyCache = <<>>
    /\ markupSnippetKeys = <<>>
    /\ reload = [p \in Procs |-> Idle]
    /\ request = NoRequest

Next ==
    \/ \E setting \in Settings, env \in Envs : Call(1, setting, env)
    \/ StatDone(1)
    \/ ReadSnippetsDone(1)
    \/ ReadProfilesDone(1)
    \/ \E syntax \in Syntaxes : GetExpandOptionsRequest(syntax, DefaultConfig)
    \/ \E typed \in TypedDuringReload :
            DoCompleteRequest(OneLine(typed.line), AtEnd(typed.line), typed.syntax,
                              DefaultConfig, "found", NoFault)

Spec == Init /\ [][Next]_vars

(***************************************************************************)
(* What a directory of the model defines, read off its files               *)
(***************************************************************************)
\* the uris of a call that fs.stat reports as directories
LoadedDirs(uris) == {d \in Range(uris) : Stat(d) = {"directory"}}

\* directories whose two files always read the same
StableDirs == {d \in DirIds : Cardinality(SnippetsFile(d)) = 1 /\ Cardinality(ProfilesFile(d)) = 1}

TheSnippetsFile(d) == CHOOSE f \in SnippetsFile(d) : TRUE

TheProfilesFile(d) == CHOOSE f \in ProfilesFile(d) : TRUE

\* keys of json[syntax].snippets
OwnSnippetKeys(json, syntax) ==
    IF Truthy(json, syntax) /\ Truthy(Get(json.v, syntax), "snippets")
    THEN Range(Keys(Get(Get(json.v, syntax).v, "snippets").v))
    ELSE {}

\* snippet keys snippets.json of directory d gives to a syntax: its own and its base syntax's
DirSnippetKeys(d, syntax) ==
    LET json == TheSnippetsFile(d).json
    IN  IF d \in StableDirs /\ OwnSnippetKeys(json, syntax) # {}
        THEN OwnSnippetKeys(json, syntax) \cup OwnSnippetKeys(json, getDefaultSyntax(syntax))
        ELSE {}

DirVariableNames(d) ==
    LET json == TheSnippetsFile(d).json
    IN  IF d \in StableDirs /\ Truthy(json, "variables") /\ IsObject(Get(json.v, "variables"))
        THEN Range(Keys(Get(json.v, "variables").v))
        ELSE {}

DirProfileSyntaxes(d) ==
    LET json == TheProfilesFile(d).json
    IN  IF d \in StableDirs /\ IsObject(json) THEN Range(Keys(json.v)) ELSE {}

\* the state a call over uris ends with, started from c: a directory whose
\* files do not parse ends the call with the empty state
RECURSIVE StateWhenSettled(_, _, _)
StateWhenSettled(c, uris, i) ==
    IF i > Len(uris)
    THEN c
    ELSE IF uris[i] \notin LoadedDirs(uris)
    THEN StateWhenSettled(c, uris, i + 1)
    ELSE IF uris[i] \notin StableDirs
    THEN EmptyCust
    ELSE LET s == IF TheSnippetsFile(uris[i]).file = "absent"
                  THEN Ok(c)
                  ELSE LoadSnippetsFile(c, TheSnippetsFile(uris[i]))
             q == IF TheProfilesFile(uris[i]).file = "absent"
                  THEN Ok(s.cust)
                  ELSE LoadProfilesFile(s.cust, TheProfilesFile(uris[i]))
         IN StateWhenSettled(q.cust, uris, i + 1)

(***************************************************************************)
(* The extraction specification: extractAbbreviation applied to a line     *)
(* that ends with filter suffixes, at any position of the line             *)
(***************************************************************************)
MaxSuffixes == 4

FilterTokens == {<<"|", "b", "e", "m">>, <<"|", "c">>, <<"|", "t">>, <<"|", "x">>}

SuffixRuns == UNION {[1..n -> FilterTokens] : n \in 0..MaxSuffixes}

RECURSIVE Flatten(_)
Flatten(run) == IF Len(run) = 0 THEN <<>> ELSE Head(run) \o Flatten(Tail(run))

ExtractHeads == {<<"u", "l", ">", "l", "i">>, <<>>}

ExtractLines == {head \o Flatten(run) : head \in ExtractHeads, run \in SuffixRuns}

\* the line alone with the cursor at its end or up to two characters before,
\* or the line below another one
ExtractInputs ==
    UNION {{[document |-> OneLine(line), position |-> [line |-> 0, character |-> c]] :
                c \in Max(Len(line) - 2, 0)..Len(line)} : line \in ExtractLines}
    \cup
    {[document |-> OneLine(<<"p", "\n">> \o line), position |-> [line |-> 1, character |-> Len(line)]] :
        line \in ExtractLines}

ExtractAbbreviationRequest ==
    /\ request.kind = "extractInput"
    /\ \E outcome \in ExtractOutcomes :
        LET currentLine == getCurrentLine(request.document, request.position)
            currentLineTillPosition == Substring(currentLine, 0, request.position.character)
        IN request' = [kind |-> "extractAbbreviation",
                       document |-> request.document,
                       position |-> request.position,
                       outcome |-> outcome,
                       typed |-> currentLineTillPosition,
                       filters |-> getFilters(currentLineTillPosition, request.position.character),
                       result |-> extractAbbreviation(request.document, request.position, outcome)]
    /\ UNCHANGED <<custVars, markupSnippetKeys, reload>>

InitExtract ==
    /\ customSnippetsRegistry = <<>>
    /\ variablesFromFile = <<>>
    /\ profilesFromFile = <<>>
    /\ snippetKeyCache = <<>>
    /\ stylesheetCustomSnippetsKeyCache = <<>>
    /\ markupSnippetKeys = <<>>
    /\ reload = [p \in Procs |-> Idle]
    /\ \E input \in ExtractInputs :
        request = [kind |-> "extractInput", document |-> input.document, position |-> input.position]

NextExtract == ExtractAbbreviationRequest

SpecExtract == InitExtract /\ [][NextExtract]_vars

(***************************************************************************)
(* The completion specification: one doComplete request over a             *)
(* customization state that a reload installed                             *)
(***************************************************************************)
\* lines typed in a markup document
MarkupLines ==
    {<<"d">>, <<"d", "l">>, <<"h">>, <<"h", "x">>, <<"<", "d", "i", "v">>,
     <<"1", ">", "d">>, <<"!", "x", ">", "d">>, <<"u", "l", ">", "d", "|", "c", "|", "b", "e", "m">>,
     <<"d", "|", "t", "|", "c", "|", "b", "e", "m">>, <<"a", ":", "l">>, <<"x", " ", "b">>, <<"a">>, <<"x", ">", "a">>,
     <<"a", "|", "t", "|", "c", "|", "b", "e", "m">>}

\* lines typed in a stylesheet
StylesheetLines ==
    {<<"c">>, <<"c", "h">>, <<"2">>, <<"m", "1">>, <<"w", "i", "d", "t", "h">>,
     <<"!">>, <<"#", "g">>, <<"x", "y">>}

NeverConfig == [DefaultConfig EXCEPT !.showExpandedAbbreviation = "never"]

AsSnippetsConfig == [DefaultConfig EXCEPT !.showSuggestionsAsSnippets = TRUE,
                                          !.showAbbreviationSuggestions = FALSE]

ExcludingConfig == [DefaultConfig EXCEPT !.excludeLanguages = {"html"}]

CompleteConfigs == Configs \cup {NeverConfig, AsSnippetsConfig, ExcludingConfig}

CompleteInputs ==
    {[syntax |-> "html", line |-> line, emmetConfig |-> c] :
        line \in MarkupLines, c \in CompleteConfigs}
    \cup
    {[syntax |-> s, line |-> line, emmetConfig |-> c] :
        s \in {"css", "scss"}, line \in StylesheetLines, c \in CompleteConfigs}
    \cup
    {[syntax |-> "plaintext", line |-> <<"d">>, emmetConfig |-> DefaultConfig]}

\* the candidates the external expand may fail on: the typed abbreviation
\* itself or the abbreviation completed to a longer key
FaultTails == {<<>>, <<"l">>, <<"h">>}

ExpandFaults(abbreviation) ==
    {NoFault} \cup
    {[mode |-> m, on |-> {abbreviation \o tail}] : m \in {"throws", "empty"}, tail \in FaultTails}

\* the states a reload over these directories leaves
LoadedStates ==
    {StateWhenSettled(EmptyCust, uris, 1) : uris \in {<<>>, <<"A">>, <<"B">>, <<"A", "B">>, <<"C">>}}

CompleteStep ==
    /\ request.kind = "doCompleteInput"
    /\ LET document == OneLine(request.line)
           position == AtEnd(request.line)
           abbreviation == extractAbbreviation(document, position, "found").abbreviation
       IN \E extractOutcome \in ExtractOutcomes, fault \in ExpandFaults(abbreviation) :
            DoCompleteRequest(document, position, request.syntax, request.emmetConfig,
                              extractOutcome, fault)

InitComplete ==
    /\ \E c \in LoadedStates :
        /\ customSnippetsRegistry = c.reg
        /\ variablesFromFile = c.vars
        /\ profilesFromFile = c.profs
        /\ snippetKeyCache = c.keyCache
        /\ stylesheetCustomSnippetsKeyCache = c.cssKeyCache
    /\ markupSnippetKeys = <<>>
    /\ reload = [p \in Procs |-> Idle]
    /\ \E input \in CompleteInputs :
        request = [kind |-> "doCompleteInput", syntax |-> input.syntax, line |-> input.line,
                   emmetConfig |-> input.emmetConfig]

NextComplete == CompleteStep

SpecComplete == InitComplete /\ [][NextComplete]_vars

(***************************************************************************)
(* isAbbreviationValid on its own: the abbreviation is drawn in Init and   *)
(* one step applies the function                                           *)
(***************************************************************************)
MaxTokens == 3

ValidTokens ==
    { <<"a">>, <<"!">>, <<":">>, <<"#">>, <<"1">>, <<">">>, <<"-">>,
      <<"(", "a", ")">>, <<")">>, <<"{", "(", "}">>,
      <<"[", "a", "=", "\"", "(", ")", "\"", "]">> }

ValidSyntaxes == {"css", "html", "jsx"}

ValidInputs ==
    UNION { { Flatten(run) : run \in [1..n -> ValidTokens] } : n \in 0..MaxTokens }

IsAbbreviationValidRequest ==
    /\ request.kind = "validInput"
    /\ request' = [kind |-> "isAbbreviationValid",
                   syntax |-> request.syntax,
                   abbreviation |-> request.abbreviation,
                   result |-> isAbbreviationValid(request.syntax, request.abbreviation)]
    /\ UNCHANGED <<custVars, markupSnippetKeys, reload>>

InitValid ==
    /\ customSnippetsRegistry = <<>>
    /\ variablesFromFile = <<>>
    /\ profilesFromFile = <<>>
    /\ snippetKeyCache = <<>>
    /\ stylesheetCustomSnippetsKeyCache = <<>>
    /\ markupSnippetKeys = <<>>
    /\ reload = [p \in Procs |-> Idle]
    /\ \E syntax \in ValidSyntaxes, abbreviation \in ValidInputs :
        request = [kind |-> "validInput", syntax |-> syntax, abbreviation |-> abbreviation]

NextValid == IsAbbreviationValidRequest

SpecValid == InitValid /\ [][NextValid]_vars

(***************************************************************************)
(* The snippet text helpers on their own: the template is drawn in Init    *)
(* and each step applies one helper to the text at hand                    *)
(***************************************************************************)
MaxPieces == 4

MaxCalls == 2

TemplatePieces ==
    { <<"$", "{", "2", "}">>, <<"$", "{", "1", "0", "}">>, <<"$", "{", "0", "}">>,
      <<"$", "{", "2", ":", "b", "}">>,
      <<"a">>, <<"$">>, <<"\\">>, <<" ">> }

TemplateInputs ==
    UNION { { Flatten(run) : run \in [1..n -> TemplatePieces] } : n \in 0..MaxPieces }

\* the request after helper `name` has turned request.text into `text`
Applied(name, text) ==
    [kind |-> name,
     template |-> request.template,
     argument |-> request.text,
     text |-> text,
     previous |-> request.kind,
     calls |-> IF request.kind = name THEN request.calls + 1 ELSE 1]

AddFinalTabStopCall ==
    /\ \/ request.kind = "templateInput"
       \/ request.kind = "addFinalTabStop" /\ request.calls < MaxCalls
    /\ request' = Applied("addFinalTabStop", addFinalTabStop(request.text))
    /\ UNCHANGED <<custVars, markupSnippetKeys, reload>>

EscapeNonTabStopDollarCall ==
    /\ \/ request.kind \in {"templateInput", "addFinalTabStop"}
       \/ request.kind = "escapeNonTabStopDollar" /\ request.calls < MaxCalls
    /\ request' = Applied("escapeNonTabStopDollar", escapeNonTabStopDollar(request.text))
    /\ UNCHANGED <<custVars, markupSnippetKeys, reload>>

ReplaceTabStopsWithCursorsCall ==
    /\ request.kind \in {"templateInput", "addFinalTabStop"}
    /\ request' = Applied("replaceTabStopsWithCursors", replaceTabStopsWithCursors(request.text))
    /\ UNCHANGED <<custVars, markupSnippetKeys, reload>>

RemoveTabStopsCall ==
    /\ request.kind = "templateInput"
    /\ request' = Applied("removeTabStops", removeTabStops(request.text))
    /\ UNCHANGED <<custVars, markupSnippetKeys, reload>>

InitTemplate ==
    /\ customSnippetsRegistry = <<>>
    /\ variablesFromFile = <<>>
    /\ profilesFromFile = <<>>
    /\ snippetKeyCache = <<>>
    /\ stylesheetCustomSnippetsKeyCache = <<>>
    /\ markupSnippetKeys = <<>>
    /\ reload = [p \in Procs |-> Idle]
    /\ \E text \in TemplateInputs :
        request = [kind |-> "templateInput", template |-> text, argument |-> text,
                   text |-> text, previous |-> "none", calls |-> 0]

NextTemplate ==
    \/ AddFinalTabStopCall
    \/ EscapeNonTabStopDollarCall
    \/ ReplaceTabStopsWithCursorsCall
    \/ RemoveTabStopsCall

SpecTemplate == InitTemplate /\ [][NextTemplate]_vars

(***************************************************************************)
(* isExpandedTextNoise on its own: the abbreviation, its expansion, the    *)
(* options and the known snippet keys are drawn in Init and one step       *)
(* applies the function                                                    *)
(***************************************************************************)
S_abc == <<"a", "b", "c">>

NoiseAbbreviations ==
    { S_abc, <<"a", "b", "c", ":">>, S_div, <<"D", "I", "V">>, <<"d", "i">>,
      <<"a", "-", "b">>, <<"a", "b", ".">>, <<".">>, <<"A", "b", "c">>, <<"b", "q">> }

NoiseSyntaxes == {"css", "sass", "html", "xml", "jsx"}

NoiseSeparators == {NotGiven, Given(<<":", " ">>), Given(<<":">>)}

NoiseTerminators == {NotGiven, Given(<<";">>), Given(<<>>)}

NoiseOptions(between, after) ==
    (IF between.given THEN << <<"stylesheet.between", JS(between.v)>> >> ELSE <<>>)
        \o (IF after.given THEN << <<"stylesheet.after", JS(after.v)>> >> ELSE <<>>)

\* what expand may have made of the abbreviation: an empty-value property on
\* the abbreviation or on a prefix of it, the abbreviation as a tag, other text
NoiseTexts(abbreviation, between, after) ==
    LET b == IF between.given THEN between.v ELSE <<":", " ">>
        a == IF after.given THEN after.v ELSE <<";">>
    IN  { SubSeq(abbreviation, 1, n) \o b \o stop \o a :
                n \in 0..Len(abbreviation), stop \in {S_tabstop0, S_tabstop1} }
        \cup { abbreviation \o a,
               Element(abbreviation, S_tabstop1),
               Element(toLowerCase(abbreviation), S_tabstop1),
               Element(S_abc, S_abc) }

NoiseKeys == { <<>>, <<S_abc, <<"a", "b", ".">>, <<"b", "q">>>> }

IsExpandedTextNoiseRequest ==
    /\ request.kind = "noiseInput"
    /\ request' = [request EXCEPT !.kind = "isExpandedTextNoise",
                                  !.result = isExpandedTextNoise(request.syntax, request.abbreviation, request.expandedText, request.options, markupSnippetKeys)]
    /\ UNCHANGED <<custVars, markupSnippetKeys, reload>>

InitNoise ==
    /\ customSnippetsRegistry = <<>>
    /\ variablesFromFile = <<>>
    /\ profilesFromFile = <<>>
    /\ snippetKeyCache = <<>>
    /\ stylesheetCustomSnippetsKeyCache = <<>>
    /\ markupSnippetKeys \in NoiseKeys
    /\ reload = [p \in Procs |-> Idle]
    /\ \E syntax \in NoiseSyntaxes, abbreviation \in NoiseAbbreviations, between \in NoiseSeparators, after \in NoiseTerminators :
        \E expandedText \in NoiseTexts(abbreviation, between, after) :
            request = [kind |-> "noiseInput", syntax |-> syntax, abbreviation |-> abbreviation,
                       expandedText |-> expandedText, between |-> between, after |-> after,
                       options |-> NoiseOptions(between, after), result |-> FALSE]

NextNoise == IsExpandedTextNoiseRequest

SpecNoise == InitNoise /\ [][NextNoise]_vars

(***************************************************************************)
(* getExpandOptions on its own: the syntax, the preferences, the profiles, *)
(* the filter and the customization are drawn in Init and one step applies *)
(* the function                                                            *)
(***************************************************************************)
S_pt == <<"p", "t">>

OptionSyntaxes == {"css", "scss", "stylus", "html", "jsx"}

\* `name:value,name:value`, the text of the `css.unitAliases` preference
RECURSIVE AliasesText(_)
AliasesText(pairs) ==
    IF Len(pairs) = 0 THEN <<>>
    ELSE Head(pairs)[1] \o <<":">> \o Head(pairs)[2]
            \o (IF Len(pairs) > 1 THEN <<",">> ELSE <<>>) \o AliasesText(Tail(pairs))

\* the user's unit aliases: one that replaces a default, one that is new
UserAliases == << <<<<"e">>, <<"x", "x">>>>, <<<<"q">>, <<"q", "q">>>> >>

\* what the user may have set; scores are in hundredths
OptionChoices ==
    [intUnit : {NotGiven, Given(JS(S_pt))},
     shortHex : {NotGiven, Given(JFalse)},
     score : {NotGiven, Given(JN(50)), Given(JN(250)), Given(JN(-20)), Given(JS(<<"x">>))},
     aliases : {NotGiven, Given(UserAliases)},
     separator : {NotGiven, Given(JS(<<":", ":">>))}]

Preference(key, choice) == IF choice.given THEN << <<key, choice.v>> >> ELSE <<>>

\* the preferences object of a choice; the separator is set for css
PreferencesOf(chosen) ==
    Preference("css.intUnit", chosen.intUnit)
        \o Preference("css.color.short", chosen.shortHex)
        \o Preference("css.fuzzySearchMinScore", chosen.score)
        \o (IF chosen.aliases.given
            THEN << <<"css.unitAliases", JS(AliasesText(chosen.aliases.v))>> >>
            ELSE <<>>)
        \o Preference("css.valueSeparator", chosen.separator)

OptionProfiles == { <<>>, << <<"html", JObj(<< <<"tag_case", JS(S_upper)>> >>)>> >> }

OptionFilters == {NotGiven, Given(S_bem), Given(<<"c", ",", "b", "e", "m">>)}

OptionStates == {StateWhenSettled(EmptyCust, uris, 1) : uris \in {<<>>, <<"A">>}}

GetExpandOptionsStep ==
    /\ request.kind = "optionsInput"
    /\ request' = [request EXCEPT
                    !.kind = "getExpandOptions",
                    !.result = getExpandOptions(request.syntax, request.emmetConfig, request.filter)]
    /\ UNCHANGED <<custVars, markupSnippetKeys, reload>>

InitOptions ==
    /\ \E c \in OptionStates :
        /\ customSnippetsRegistry = c.reg
        /\ variablesFromFile = c.vars
        /\ profilesFromFile = c.profs
        /\ snippetKeyCache = c.keyCache
        /\ stylesheetCustomSnippetsKeyCache = c.cssKeyCache
    /\ markupSnippetKeys = <<>>
    /\ reload = [p \in Procs |-> Idle]
    /\ \E syntax \in OptionSyntaxes, chosen \in OptionChoices, profiles \in OptionProfiles, filter \in OptionFilters :
        request = [kind |-> "optionsInput", syntax |-> syntax, chosen |-> chosen,
                   emmetConfig |-> EmmetConfig("always", TRUE, profiles, NotGiven,
                                               PreferencesOf(chosen), FALSE),
                   filter |-> filter, result |-> <<>>]

NextOptions == GetExpandOptionsStep

SpecOptions == InitOptions /\ [][NextOptions]_vars

(***************************************************************************)
(* Properties of the reload                                                *)
(***************************************************************************)
\* C1: a request served while a reload is suspended at an await reads
\* snippets, variables and profiles that are together either the state
\* installed before the reload started or the state installed when it
\* finishes, never a partly reset or partly updated state.
C1_RequestSeesOldOrNewState ==
    (request.kind = "getExpandOptions" /\ 1 \in request.duringReload) =>
        LET r == reload[1]
            seen == Parts(request.snippets, request.variables, request.profiles)
            finished == StateWhenSettled(EmptyCust, r.uris, 1)
        IN  seen \in {r.before, Parts(finished.reg, finished.vars, finished.profs)}

\* the reload settled without loading a directory
NotLoaded ==
    \/ reload[1].pc = "rejected"
    \/ reload[1].pc = "resolved" /\ ~reload[1].configured
    \/ reload[1].pc = "resolved" /\ LoadedDirs(reload[1].uris) = {}

C3_ResolvedReloadReplacesState ==
    reload[1].pc = "resolved" =>
        LET dirs == LoadedDirs(reload[1].uris)
        IN  /\ \A s \in Range(Keys(customSnippetsRegistry)) :
                \A k \in Range(Keys(Get(customSnippetsRegistry, s))) :
                    \E d \in dirs : k \in DirSnippetKeys(d, s)
            /\ \A s \in Range(Keys(stylesheetCustomSnippetsKeyCache)) :
                \A k \in Range(Get(stylesheetCustomSnippetsKeyCache, s)) :
                    \E d \in dirs : k \in DirSnippetKeys(d, s)
            /\ \A v \in Range(Keys(variablesFromFile)) :
                    \E d \in dirs : v \in DirVariableNames(d)
            /\ \A s \in Range(Keys(profilesFromFile)) :
                    \E d \in dirs : s \in DirProfileSyntaxes(d)

\* directory B loaded after a reload that had installed A's profiles, html
\* snippets and variables
C3_Witness ==
    /\ reload[1].pc = "resolved"
    /\ reload[1].before[3] # <<>>
    /\ Has(reload[1].before[1], "html")
    /\ LoadedDirs(reload[1].uris) = {"B"}
    /\ Has(customSnippetsRegistry, "scss")
    /\ profilesFromFile = <<>>

\* C8: a call none of whose paths resolves to an existing directory never
\* completes successfully.
C8_NoDirectoryNeverResolves ==
    (reload[1].pc = "resolved" /\ reload[1].configured) =>
        LoadedDirs(reload[1].uris) # {}

\* C9: a request made after the reload resolved sees every customization of
\* the loaded directories: getExpandOptions reads their snippets, variables
\* and profiles, and doComplete suggests each of their snippet keys that the
\* typed abbreviation begins.
C9_ResolvedReloadIsSeen ==
    reload[1].pc = "resolved" =>
        \A d \in LoadedDirs(reload[1].uris) :
            /\ request.kind = "getExpandOptions" =>
                /\ \A k \in DirSnippetKeys(d, request.syntax) :
                        IsObject(request.result.snippets) /\ Has(request.result.snippets.v, k)
                /\ \A v \in DirVariableNames(d) : Has(request.result.variables, v)
                /\ \A s \in DirProfileSyntaxes(d) : Has(request.profiles, s)
                /\ (d = "A" /\ request.syntax = "html") =>
                        Get(request.result.options, "output.tagCase").v = S_upper
            /\ request.kind = "doComplete" =>
                \A k \in DirSnippetKeys(d, request.syntax) :
                    (StartsWith(k, request.result.extracted.abbreviation)
                        /\ k # request.result.extracted.abbreviation) =>
                        \E i \in 1..Len(request.result.items) :
                            request.result.items[i].label = k

(***************************************************************************)
(* Properties of extractAbbreviation and getFilters                        *)
(***************************************************************************)
FilterCodes == {bemFilterSuffix, commentFilterSuffix, trimFilterSuffix}

\* the recognised filter codes that end the text at pos, read backwards from
\* pos: the one closest to pos first, at most n of them
RECURSIVE TrailingFilters(_, _, _)
TrailingFilters(text, pos, n) ==
    IF n = 0 \/ ~\E code \in FilterCodes : EndsWithAt(text, filterDelimitor \o code, pos)
    THEN <<>>
    ELSE LET code == CHOOSE c \in FilterCodes : EndsWithAt(text, filterDelimitor \o c, pos)
         IN  <<code>> \o TrailingFilters(text, pos - (Len(code) + 1), n - 1)

RECURSIVE JoinCodes(_)
JoinCodes(codes) ==
    IF Len(codes) = 1
    THEN codes[1]
    ELSE codes[1] \o <<",">> \o JoinCodes(Tail(codes))

Reverse(seq) == [i \in 1..Len(seq) |-> seq[Len(seq) + 1 - i]]

\* C10 as stated: when the text before the cursor ends with several recognised
\* filter suffixes, the filter string lists the codes as the backward scan
\* finds them, the one closest to the cursor first.
C10_ClosestFilterFirst ==
    request.kind = "extractAbbreviation" =>
        LET codes == TrailingFilters(request.typed, Len(request.typed), maxFilters)
        IN  Len(codes) >= 2 =>
                /\ request.filters.filter.given
                /\ request.filters.filter.v = JoinCodes(codes)

\* C10 amended: the filter string lists the recognised suffixes that end the
\* text, at most maxFilters of them, in the order they are typed, so the one
\* closest to the cursor comes last; extractAbbreviation returns that string
\* with the abbreviation it found.
C10_FiltersInTypedOrder ==
    request.kind = "extractAbbreviation" =>
        LET codes == TrailingFilters(request.typed, Len(request.typed), maxFilters)
        IN  /\ request.filters.filter.given <=> Len(codes) > 0
            /\ Len(codes) > 0 => request.filters.filter.v = JoinCodes(Reverse(codes))
            /\ request.result.found => request.result.filter = request.filters.filter

\* `ul>li|c|bem` with the cursor at its end: the filter is `c,bem`
C10_Witness ==
    /\ request.kind = "extractAbbreviation"
    /\ request.result.found
    /\ request.typed = <<"u", "l", ">", "l", "i", "|", "c", "|", "b", "e", "m">>
    /\ request.result.filter = Given(<<"c", ",", "b", "e", "m">>)
    /\ request.result.abbreviation = <<"u", "l", ">", "l", "i">>

RECURSIVE SuffixLength(_)
SuffixLength(codes) ==
    IF Len(codes) = 0 THEN 0 ELSE Len(filterDelimitor) + Len(Head(codes)) + SuffixLength(Tail(codes))

\* C11: where an abbreviation is extracted, the replace range starts at the
\* abbreviation's start column and ends at start + length of the abbreviation
\* + the characters of all stripped filter suffixes (each `|` and its code),
\* so the range covers exactly the abbreviation and its filter suffixes.
C11_RangeCoversAbbreviationAndFilters ==
    (request.kind = "extractAbbreviation" /\ request.result.found) =>
        LET codes == TrailingFilters(request.typed, Len(request.typed), maxFilters)
            range == request.result.abbreviationRange
            line == getCurrentLine(request.document, request.position)
        IN  /\ range.line = request.position.line
            /\ range.end = range.start + Len(request.result.abbreviation) + SuffixLength(codes)
            /\ Substring(line, range.start, range.start + Len(request.result.abbreviation))
                    = request.result.abbreviation
            /\ Substring(line, range.start, range.end)
                    = request.result.abbreviation \o
                      Flatten([i \in 1..Len(codes) |-> filterDelimitor \o Reverse(codes)[i]])

\* `ul>li|t|bem|c` with the cursor at its end: three filters, range [0, 13]
C11_Witness ==
    /\ request.kind = "extractAbbreviation"
    /\ request.result.found
    /\ request.typed = <<"u", "l", ">", "l", "i", "|", "t", "|", "b", "e", "m", "|", "c">>
    /\ request.result.abbreviationRange = [line |-> 0, start |-> 0, end |-> 13]
    /\ request.result.filter = Given(<<"t", ",", "b", "e", "m", ",", "c">>)

(***************************************************************************)
(* Properties of isAbbreviationValid                                       *)
(***************************************************************************)
Validated == request.kind = "isAbbreviationValid"

\* C12: for every stylesheet syntax, an abbreviation that isAbbreviationValid
\* accepts does not end with `:`.
C12_StylesheetRejectsTrailingColon ==
    (Validated /\ isStyleSheet(request.syntax) /\ request.result) =>
        ~EndsWith(request.abbreviation, <<":">>)

\* C13: for markup syntaxes, an abbreviation made only of `!` characters is
\* valid, and an abbreviation that has a `!` anywhere together with any other
\* character is invalid.
C13_BangOnlyAlone ==
    (/\ Validated /\ ~isStyleSheet(request.syntax)
     /\ \E i \in 1..Len(request.abbreviation) : request.abbreviation[i] = "!") =>
        (request.result <=>
            \A i \in 1..Len(request.abbreviation) : request.abbreviation[i] = "!")

\* The `)` that closes the `(` at index i, 0 when it is never closed
CloseOf(s, i) ==
    LET count(ch, j) == Cardinality({k \in i..j : s[k] = ch})
        closes == {j \in (i + 1)..Len(s) : count("(", j) = count(")", j)}
    IN  IF closes = {} THEN 0 ELSE CHOOSE j \in closes : \A k \in closes : j <= k

\* The group s[i..j] lies in a text node: braces around it, none in between
GroupInTextNode(s, i, j) ==
    \E a \in 1..(i - 1), b \in (j + 1)..Len(s) :
        /\ s[a] = "{" /\ s[b] = "}"
        /\ \A k \in (a + 1)..(b - 1) : s[k] \notin {"{", "}"}

\* The group s[i..j] lies in a quoted value of a bracket attribute
GroupInQuotedAttribute(s, i, j) ==
    \E a \in 1..(i - 1), b \in (j + 1)..Len(s) :
        /\ s[a] = "\"" /\ s[b] = "\""
        /\ a > 1 /\ s[a - 1] = "="
        /\ b < Len(s) /\ s[b + 1] = "]"
        /\ \E k \in 1..(a - 1) : s[k] = "["

\* The group s[i..j] has a nesting operator right before or right after it
GroupNextToOperator(s, i, j) ==
    \/ i > 1 /\ s[i - 1] \in NestingOperators
    \/ j < Len(s) /\ s[j + 1] \in NestingOperators

\* C14: for markup syntaxes, an accepted abbreviation has each of its
\* parenthesis groups inside a text node, next to one of the operators
\* > + * ^, or inside a quoted bracket-attribute value.
C14_EveryGroupIsPlaced ==
    (Validated /\ ~isStyleSheet(request.syntax) /\ request.result) =>
        \A i \in 1..Len(request.abbreviation) :
            (request.abbreviation[i] = "(" /\ CloseOf(request.abbreviation, i) # 0) =>
                LET j == CloseOf(request.abbreviation, i)
                IN  \/ GroupInTextNode(request.abbreviation, i, j)
                    \/ GroupNextToOperator(request.abbreviation, i, j)
                    \/ GroupInQuotedAttribute(request.abbreviation, i, j)

(***************************************************************************)
(* Properties of the snippet text helpers                                  *)
(***************************************************************************)
\* 0-based offsets of the bare `${n}` markers and of the `${n:placeholder}` markers
BareMarkers(t) == {i \in 0..(Len(t) - 1) : TabStopAt(t, i) > 0}

PlaceholderMarkers(t) == {i \in 0..(Len(t) - 1) : PlaceholderAt(t, i).len > 0}

\* the number of the marker at 0-based offset i
MarkerNumber(t, i) == Number(Substring(t, i + 2, i + 2 + DigitRun(t, i + 2)))

MarkerNumbers(t, markers) == {MarkerNumber(t, i) : i \in markers}

\* t with every bare marker numbered n rewritten to `${0}`, from 0-based offset i
RECURSIVE RewriteBare(_, _, _)
RewriteBare(t, i, n) ==
    IF i >= Len(t)
    THEN <<>>
    ELSE IF TabStopAt(t, i) > 0 /\ MarkerNumber(t, i) = n
    THEN <<"$", "{", "0", "}">> \o RewriteBare(t, i + TabStopAt(t, i), n)
    ELSE <<t[i + 1]>> \o RewriteBare(t, i + 1, n)

Greatest(numbers) == CHOOSE n \in numbers : \A m \in numbers : m <= n

\* C15: for a template without a `${0}` marker whose numerically greatest
\* tab-stop number N is on a bare marker, addFinalTabStop returns the template
\* with every bare `${N}` rewritten to `${0}` and nothing else changed.
C15_GreatestBareStopBecomesFinal ==
    (request.kind = "addFinalTabStop" /\ request.previous = "templateInput") =>
        LET t == request.argument
            bare == MarkerNumbers(t, BareMarkers(t))
            all == bare \cup MarkerNumbers(t, PlaceholderMarkers(t))
        IN  (all # {} /\ 0 \notin all /\ Greatest(all) \in bare) =>
                request.text = RewriteBare(t, 0, Greatest(all))

\* C16: addFinalTabStop applied to its own output returns that output unchanged.
C16_AddFinalTabStopIdempotent ==
    (request.kind = "addFinalTabStop" /\ request.previous = "addFinalTabStop") =>
        request.text = request.argument

\* `a${2}` became `a${0}`, and the second application left `a${0}` as it was
C16_Witness ==
    /\ request.kind = "addFinalTabStop"
    /\ request.previous = "addFinalTabStop"
    /\ request.template = <<"a", "$", "{", "2", "}">>
    /\ request.argument = <<"a", "$", "{", "0", "}">>
    /\ request.text = <<"a", "$", "{", "0", "}">>

\* the numbers of the `${n:placeholder}` markers of t in text order, from 0-based offset i
RECURSIVE PlaceholderNumbers(_, _)
PlaceholderNumbers(t, i) ==
    IF i >= Len(t)
    THEN <<>>
    ELSE IF PlaceholderAt(t, i).len > 0
    THEN <<MarkerNumber(t, i)>> \o PlaceholderNumbers(t, i + PlaceholderAt(t, i).len)
    ELSE PlaceholderNumbers(t, i + 1)

\* C17: addFinalTabStop never renumbers a placeholder marker: the
\* `${n:placeholder}` markers of its output carry, one by one, the numbers they
\* have in its input.
C17_PlaceholdersKeepTheirNumber ==
    request.kind = "addFinalTabStop" =>
        PlaceholderNumbers(request.text, 0) = PlaceholderNumbers(request.argument, 0)

\* C18: replaceTabStopsWithCursors applied to the output of addFinalTabStop
\* holds no raw `${n}` marker, wherever the markers stand in the text.
C18_PreviewHasNoRawTabStop ==
    (request.kind = "replaceTabStopsWithCursors" /\ request.previous = "addFinalTabStop") =>
        BareMarkers(request.text) = {}

\* C19: in the output of escapeNonTabStopDollar every `$` that is not followed
\* at once by `{` has a backslash before it, be it the first character, the
\* last one, or next to another `$`.
C19_BareDollarsAreEscaped ==
    request.kind = "escapeNonTabStopDollar" =>
        \A i \in 1..Len(request.text) :
            (/\ request.text[i] = "$"
             /\ (i = Len(request.text) \/ request.text[i + 1] # "{")) =>
                (i > 1 /\ request.text[i - 1] = "\\")

\* C20: escapeNonTabStopDollar applied to its own output changes nothing.
C20_EscapeIdempotent ==
    (request.kind = "escapeNonTabStopDollar" /\ request.previous = "escapeNonTabStopDollar") =>
        request.text = request.argument

(***************************************************************************)
(* Properties of isExpandedTextNoise                                       *)
(***************************************************************************)
Classified == request.kind = "isExpandedTextNoise"

\* the separator and the terminator of the request's syntax
SeparatorOf(r) == IF r.between.given THEN r.between.v ELSE <<":", " ">>

TerminatorOf(r) == IF r.after.given THEN r.after.v ELSE <<";">>

\* C21: for stylesheet syntaxes, an expansion made of the abbreviation, the
\* separator, an empty tab stop and the terminator is noise, e.g. `abc`
\* expanding to `abc: ${1};` in CSS.
C21_EmptyValuePropertyIsNoise ==
    (/\ Classified /\ isStyleSheet(request.syntax)
     /\ \E stop \in {<<"$", "{", "0", "}">>, <<"$", "{", "1", "}">>} :
            request.expandedText
                = request.abbreviation \o SeparatorOf(request) \o stop \o TerminatorOf(request)) =>
        request.result

\* the end of the abbreviation holds the first character of the separator
OverlapsSeparator(abbreviation, between) ==
    \E i \in (Max(Len(abbreviation) - Len(between), 0) + 1)..Len(abbreviation) :
        abbreviation[i] = between[1]

\* C21 (amended): for stylesheet syntaxes, an expansion made of the
\* abbreviation (one whose end does not overlap the separator), the separator,
\* the tab stop `${0}` and the terminator is noise: `abc` expanding to
\* `abc: ${0};` in CSS.
C21_EmptyValuePropertyWithFinalStopIsNoise ==
    (/\ Classified /\ isStyleSheet(request.syntax)
     /\ ~OverlapsSeparator(request.abbreviation, SeparatorOf(request))
     /\ request.expandedText
            = request.abbreviation \o SeparatorOf(request) \o <<"$", "{", "0", "}">>
                \o TerminatorOf(request)) =>
        request.result

\* `abc` with `abc: ${0};` in css is noise
C21_Witness ==
    /\ Classified
    /\ request.syntax = "css"
    /\ request.abbreviation = <<"a", "b", "c">>
    /\ request.expandedText = <<"a", "b", "c", ":", " ", "$", "{", "0", "}", ";">>
    /\ request.result

\* C22: for every markup syntax, an abbreviation that is, ignoring case, in the
\* common-tag list, or that is a known snippet key, is never noise, whatever
\* its expansion.
C22_KnownTagOrKeyIsNeverNoise ==
    (/\ Classified /\ ~isStyleSheet(request.syntax)
     /\ \/ ArrIncludes(commonlyUsedTags, toLowerCase(request.abbreviation))
        \/ ArrIncludes(markupSnippetKeys, request.abbreviation)) =>
        ~request.result

\* C22 (amended): for every markup syntax other than xml, an abbreviation that
\* is, ignoring case, in the common-tag list, or that is a known snippet key,
\* is never noise; for xml an abbreviation that, ignoring case, begins a
\* common tag is always noise.
C22_KnownTagOrKeyIsNeverNoiseOutsideXml ==
    (Classified /\ ~isStyleSheet(request.syntax)) =>
        /\ (/\ request.syntax # "xml"
            /\ \/ ArrIncludes(commonlyUsedTags, toLowerCase(request.abbreviation))
               \/ ArrIncludes(markupSnippetKeys, request.abbreviation)) =>
                ~request.result
        /\ (/\ request.syntax = "xml"
            /\ \E i \in 1..Len(commonlyUsedTags) :
                    StartsWith(commonlyUsedTags[i], toLowerCase(request.abbreviation))) =>
                request.result

\* `DIV` with `<div>${1}</div>` in html: the echo of the abbreviation, yet no noise
C22_Witness ==
    /\ Classified
    /\ request.syntax = "html"
    /\ request.abbreviation = <<"D", "I", "V">>
    /\ request.expandedText = Element(S_div, S_tabstop1)
    /\ ~request.result

(***************************************************************************)
(* Properties of doComplete                                                *)
(***************************************************************************)
\* the request got as far as extracting the abbreviation
Extracting ==
    /\ request.kind = "doComplete"
    /\ request.emmetConfig.showExpandedAbbreviation # "never"
    /\ getEmmetMode(request.syntax, request.emmetConfig.excludeLanguages).given

\* C4: doComplete returns a completion list or no result; it never ends
\* with an exception.
C4_DoCompleteNeverThrows ==
    request.kind = "doComplete" => request.result.outcome # "throws"

\* C5: when the external extract throws or finds nothing, extractAbbreviation
\* yields no result without raising and doComplete returns no result.
C5_ExtractFailureGivesNoResult ==
    (Extracting /\ request.extractOutcome \in {"throws", "none"}) =>
        /\ ~request.result.extracted.threw
        /\ ~request.result.extracted.found
        /\ request.result.outcome = "undefined"

\* the label of a completion item is among the items the request returned
Returned(label) ==
    \E i \in 1..Len(request.result.items) : request.result.items[i].label = label

\* C6: when the external expand throws on some abbreviations, every secondary
\* candidate (common tag or snippet key match) that the request returns
\* without the throw, and whose own expansion does not throw, is still
\* returned: a throw on the primary abbreviation or on another candidate
\* drops nothing else.
C6_ExpandThrowDropsOnlyThatCandidate ==
    (Extracting /\ request.extractOutcome = "found" /\ request.fault.mode = "throws") =>
        LET unfaulted == doComplete(request.document, request.position, request.syntax,
                                    request.emmetConfig, "found", NoFault)
            abbreviation == request.result.extracted.abbreviation
            prefix == IF isStyleSheet(request.syntax)
                      THEN abbreviation
                      ELSE tagToFindMoreSuggestionsFor(abbreviation)
            secondary(item) ==
                IF isStyleSheet(request.syntax)
                THEN item.detail = S_EmmetCustomSnippet
                ELSE item.label # PrimaryLabel(abbreviation, request.result.extracted.filter)
            own(item) == abbreviation \o SubstrFrom(item.label, Len(prefix))
        IN  \A i \in 1..Len(unfaulted.items) :
                (secondary(unfaulted.items[i]) /\ own(unfaulted.items[i]) \notin request.fault.on)
                    => Returned(unfaulted.items[i].label)

\* the keys secondary matching goes through: the custom snippet keys of a
\* stylesheet syntax; for markup the common tags and, when abbreviation
\* suggestions are on, the snippet keys
SecondaryKeys ==
    IF isStyleSheet(request.syntax)
    THEN IF Has(customSnippetsRegistry, request.syntax)
         THEN Range(Keys(Get(customSnippetsRegistry, request.syntax)))
         ELSE {}
    ELSE Range(commonlyUsedTags) \cup
         (IF request.emmetConfig.showAbbreviationSuggestions
          THEN Range(request.result.markupSnippetKeys)
          ELSE {})

\* C7: when the validator rejects the extracted abbreviation, secondary
\* matching is still done: every common tag or snippet key (custom snippet
\* key for a stylesheet) that the typed abbreviation begins is returned.
C7_InvalidAbbreviationKeepsSecondary ==
    (/\ Extracting
     /\ request.extractOutcome = "found"
     /\ request.fault = NoFault
     /\ request.result.extracted.found
     /\ ~isAbbreviationValid(request.syntax, request.result.extracted.abbreviation)) =>
        LET abbreviation == request.result.extracted.abbreviation
            prefix == IF isStyleSheet(request.syntax)
                      THEN abbreviation
                      ELSE tagToFindMoreSuggestionsFor(abbreviation)
        IN  \A k \in SecondaryKeys :
                (Len(prefix) > 0 /\ StartsWith(k, toLowerCase(prefix)) /\ k # toLowerCase(prefix))
                    => Returned(prefix \o SubstrFrom(k, Len(prefix)))

\* C23: the list doComplete returns is deduplicated by insert text: no two of
\* its items have the same textEdit.newText.
C23_NoTwoItemsWithTheSameInsertText ==
    (request.kind = "doComplete" /\ request.result.outcome = "list") =>
        \A i \in 1..Len(request.result.items), j \in 1..Len(request.result.items) :
            i # j => request.result.items[i].textEdit.newText
                        # request.result.items[j].textEdit.newText

\* the item is the primary expansion of the request's abbreviation
IsPrimary(item) ==
    item.label = PrimaryLabel(request.result.extracted.abbreviation, request.result.extracted.filter)

\* the item is the suggestion of a snippet key that is no common tag
IsSnippetKeySuggestion(item) ==
    LET prefix == tagToFindMoreSuggestionsFor(request.result.extracted.abbreviation)
    IN  /\ request.emmetConfig.showAbbreviationSuggestions
        /\ ~IsPrimary(item)
        /\ \E k \in Range(request.result.markupSnippetKeys) \ Range(commonlyUsedTags) :
                /\ StartsWith(k, toLowerCase(prefix))
                /\ k # toLowerCase(prefix)
                /\ item.label = prefix \o SubstrFrom(k, Len(prefix))

\* a markup request returned the primary expansion together with snippet-key suggestions
PrimaryWithSnippetKeys ==
    /\ request.kind = "doComplete"
    /\ request.result.outcome = "list"
    /\ ~isStyleSheet(request.syntax)
    /\ \E i \in 1..Len(request.result.items) : IsPrimary(request.result.items[i])
    /\ \E i \in 1..Len(request.result.items) : IsSnippetKeySuggestion(request.result.items[i])

\* the sort keys and the filter text that put the primary item first
PrimarySortsFirst ==
    \A i \in 1..Len(request.result.items) :
        LET item == request.result.items[i]
            abbreviation == request.result.extracted.abbreviation
        IN  /\ IsPrimary(item) => item.sortText = Given(<<"0">> \o item.label)
            /\ IsSnippetKeySuggestion(item) =>
                    /\ item.sortText = Given(<<"9">> \o abbreviation)
                    /\ item.filterText = Given(abbreviation)

\* C24: for markup syntaxes, whenever the returned list holds the primary
\* expansion together with snippet-key suggestions, the primary item has sort
\* key "0" + label and every snippet-key suggestion has sort key
\* "9" + abbreviation and the typed abbreviation as filter text.
C24_PrimarySortsBeforeSnippetKeys == PrimaryWithSnippetKeys => PrimarySortsFirst

\* C24 (amended): for markup syntaxes, when the returned list holds the
\* primary expansion together with snippet-key suggestions and the suggestions
\* were sought for the last tag of a longer abbreviation (one ending in `>tag`
\* or `+tag`), the primary item has sort key "0" + label and every snippet-key
\* suggestion has sort key "9" + abbreviation and the typed abbreviation as
\* filter text; when they were sought for the whole abbreviation no item has
\* a sort key or a filter text.
C24_PrimarySortsBeforeSnippetKeysOfLastTag ==
    PrimaryWithSnippetKeys =>
        IF tagToFindMoreSuggestionsFor(request.result.extracted.abbreviation)
                # request.result.extracted.abbreviation
        THEN PrimarySortsFirst
        ELSE \A i \in 1..Len(request.result.items) :
                /\ request.result.items[i].sortText = NotGiven
                /\ request.result.items[i].filterText = NotGiven

\* `x>a` typed with abbreviation suggestions on: primary `x>a`, suggestion `a:l`
C24_Witness ==
    /\ PrimaryWithSnippetKeys
    /\ request.result.extracted.abbreviation = <<"x", ">", "a">>
    /\ request.result.items[1].sortText = Given(<<"0", "x", ">", "a">>)
    /\ \E i \in 1..Len(request.result.items) :
            /\ request.result.items[i].label = <<"a", ":", "l">>
            /\ request.result.items[i].sortText = Given(<<"9", "x", ">", "a">>)
            /\ request.result.items[i].filterText = Given(<<"x", ">", "a">>)

\* the item was made from the typed abbreviation itself: its label is the
\* abbreviation, alone or followed by `|` and filters
MadeFromAbbreviation(item) ==
    \/ item.label = request.result.extracted.abbreviation
    \/ StartsWith(item.label, request.result.extracted.abbreviation \o <<"|">>)

\* C25: for markup syntaxes, the label of the primary item is the abbreviation
\* followed by each extracted filter written as `|code` in the order typed,
\* that is the typed text the replace range covers, with one, two or three filters.
C25_PrimaryLabelIsTheTypedText ==
    (/\ request.kind = "doComplete"
     /\ request.result.outcome = "list"
     /\ ~isStyleSheet(request.syntax)) =>
        \A i \in 1..Len(request.result.items) :
            MadeFromAbbreviation(request.result.items[i]) =>
                request.result.items[i].label
                    = Substring(getCurrentLine(request.document, request.position),
                                request.result.extracted.abbreviationRange.start,
                                request.result.extracted.abbreviationRange.end)

(***************************************************************************)
(* Properties of getExpandOptions                                          *)
(***************************************************************************)
OptionsReturned == request.kind = "getExpandOptions" /\ request.result # <<>>

\* the option holds the user's value when one is given, else the default
Resolved(key, choice, default) ==
    /\ Has(request.result.options, key)
    /\ Get(request.result.options, key) = (IF choice.given THEN choice.v ELSE default)

\* the aliases are those of `over` laid over the default ones
Overlaid(aliases, over) ==
    /\ Range(Keys(aliases)) = Range(Keys(DefaultUnitAliases)) \cup Range(Keys(over))
    /\ \A k \in Range(Keys(aliases)) :
            Get(aliases, k) = (IF Has(over, k) THEN Get(over, k) ELSE Get(DefaultUnitAliases, k))

\* the user's value separator: `css.valueSeparator` is the key read for css and
\* for the markup syntaxes
SeparatorChoice ==
    IF request.syntax \in {"scss", "stylus"} THEN NotGiven ELSE request.chosen.separator

\* the keys with a single source: the field callback, and the user's value or the
\* default (the fuzzy search score has its own property, C30)
KeysResolved ==
    /\ Resolved("output.field", NotGiven, emmetSnippetFieldFn)
    /\ Resolved("stylesheet.intUnit", request.chosen.intUnit, JS(<<"p", "x">>))
    /\ Resolved("stylesheet.shortHex", request.chosen.shortHex, JTrue)
    /\ Resolved("stylesheet.between", SeparatorChoice,
                JS(IF request.syntax = "stylus" THEN <<" ">> ELSE <<":", " ">>))
    /\ Resolved("stylesheet.after", NotGiven,
                JS(IF request.syntax = "stylus" THEN <<>> ELSE <<";">>))
    /\ \A k \in Range(Keys(defaultVSCodeOptions(request.syntax))) :
            /\ Has(request.result.options, k)
            /\ Get(request.result.options, k).t # "undefined"

UserAliasesOf(r) == IF r.chosen.aliases.given THEN r.chosen.aliases.v ELSE <<>>

C30_FuzzySearchMinScoreIsClamped ==
    (OptionsReturned /\ isStyleSheet(request.syntax)) =>
        LET score == Get(request.result.options, "stylesheet.fuzzySearchMinScore")
            given == request.chosen.score
        IN  /\ score.t = "number"
            /\ score.n >= 0 /\ score.n <= 100
            /\ (given.given /\ given.v.t = "number" /\ given.v.n > 100) => score.n = 100
            /\ (given.given /\ given.v.t = "number" /\ given.v.n < 0) => score.n = 0
            /\ (given.given /\ given.v.t # "number") => score.n = DefaultFuzzySearchMinScore

(***************************************************************************)
(* Properties of the key caches across reloads                             *)
(***************************************************************************)
\* the snippet keys of a markup syntax under the customization now installed
KeysOfRegistry(syntax) ==
    Keys(Assign(getDefaultSnippets(syntax),
                IF Has(customSnippetsRegistry, syntax)
                THEN Get(customSnippetsRegistry, syntax)
                ELSE <<>>))

\* C28: a markup completion served after a reload has resolved takes its
\* snippet-key suggestions from the custom snippets that reload installed,
\* whatever requests were served while the reload was in flight.
C28_SnippetKeysFollowTheReload ==
    (/\ request.kind = "doComplete"
     /\ ~isStyleSheet(request.syntax)
     /\ reload[1].pc = "resolved") =>
        request.result.markupSnippetKeys = KeysOfRegistry(request.syntax)

\* the keys cached for a stylesheet syntax by updateSnippets
CachedStylesheetKeys(syntax) ==
    IF Has(stylesheetCustomSnippetsKeyCache, syntax)
    THEN Range(Get(stylesheetCustomSnippetsKeyCache, syntax))
    ELSE {}

\* C29: after a reload has resolved, from one directory or from several, the
\* key list cached for a stylesheet syntax holds every key of the custom
\* snippets loaded for that syntax.
C29_StylesheetKeyCacheHoldsEveryLoadedKey ==
    reload[1].pc = "resolved" =>
        \A syntax \in StylesheetSyntaxes :
            Has(customSnippetsRegistry, syntax) =>
                Range(Keys(Get(customSnippetsRegistry, syntax))) \subseteq CachedStylesheetKeys(syntax)

(***************************************************************************)
(* Overlapping reloads: updateExtensionsPath is called again while an      *)
(* earlier call is still awaiting the file system                          *)
(***************************************************************************)
OverlapSettings ==
    {<<>>,
     <<Path("home", "A")>>,
     <<Path("relative", "B")>>,
     <<Path("absolute", "C")>>,
     <<Path("home", "A"), Path("relative", "B")>>}

BothGiven == [homeDir |-> TRUE, workspaceFolderPaths |-> TRUE]

InitOverlap == Init

NextOverlap ==
    \E p \in Procs :
        \/ \E setting \in OverlapSettings : Call(p, setting, BothGiven)
        \/ StatDone(p)
        \/ ReadSnippetsDone(p)
        \/ ReadProfilesDone(p)

SpecOverlap == InitOverlap /\ [][NextOverlap]_vars

\* snippets, variables and profiles a call over uris installs when it runs alone
InstalledAlone(uris) ==
    LET c == StateWhenSettled(EmptyCust, uris, 1)
    IN  Parts(c.reg, c.vars, c.profs)

\* C27: once two reloads have both resolved, the snippets, variables and
\* profiles are those one of the two calls installs when it runs alone, never
\* entries of both.
C27_OverlappingReloadsNeverMix ==
    (\A p \in Procs : reload[p].pc = "resolved") =>
        \E p \in Procs :
            Parts(customSnippetsRegistry, variablesFromFile, profilesFromFile)
                = InstalledAlone(reload[p].uris)

====
